---- MODULE Spec2Model ----
(***************************************************************************)
(* Template rendering and mailto/export generation of the email-campaign   *)
(* platform: the placeholder substitution of every call site, the          *)
(* personal-note policies, the mailto length check and the link builders.  *)
(*                                                                         *)
(* A JavaScript string is a sequence of one-character strings, so that     *)
(* String.prototype.replace, replaceAll, split, trim and                   *)
(* encodeURIComponent are computed character by character.                 *)
(***************************************************************************)
EXTENDS Integers, Sequences, FiniteSets, TLC

VARIABLES cfg, recipients, form, out, page, srv, reqs

vars == <<cfg, recipients, form, out, page, srv, reqs>>

(***************************************************************************)
(* Characters and literals of the source                                   *)
(***************************************************************************)
LF == "\n"
CR == "\r"
\* The backtick and the apostrophe of the replacement patterns $` and $'.
BACKTICK == "BACKTICK"
APOS == "APOS"

TokName == <<"{", "{", "n", "a", "m", "e", "}", "}">>
TokPostcode == <<"{", "{", "p", "o", "s", "t", "c", "o", "d", "e", "}", "}">>
BlankLine == <<LF, LF>>

YourName == <<"[", "Y", "o", "u", "r", " ", "N", "a", "m", "e", "]">>
YourPostcode == <<"[", "Y", "o", "u", "r", " ", "P", "o", "s", "t", "c", "o", "d", "e", "]">>
PS == <<"P", ".", "S", ".", " ">>
PersonalNoteLabel == <<"P", "e", "r", "s", "o", "n", "a", "l", " ", "n", "o", "t", "e", ":", LF>>
DefaultSubjectSimple ==
    <<"Y", "o", "u", "r", " ", "c", "o", "n", "s", "t", "i", "t", "u", "e", "n", "t", " ",
      "h", "a", "s", " ", "c", "o", "n", "c", "e", "r", "n", "s">>
DefaultSubjectLegacy ==
    <<"M", "e", "s", "s", "a", "g", "e", " ", "f", "r", "o", "m", " ",
      "c", "o", "n", "s", "t", "i", "t", "u", "e", "n", "t">>
MailtoScheme == <<"m", "a", "i", "l", "t", "o", ":">>
SubjectParam == <<"?", "s", "u", "b", "j", "e", "c", "t", "=">>
BodyParam == <<"&", "b", "o", "d", "y", "=">>
ToHeader == <<"T", "o", ":", " ">>
SubjectHeader == <<"S", "u", "b", "j", "e", "c", "t", ":", " ">>

Letters ==
    {"a", "b", "c", "d", "e", "f", "g", "h", "i", "j", "k", "l", "m", "n", "o", "p", "q",
     "r", "s", "t", "u", "v", "w", "x", "y", "z",
     "A", "B", "C", "D", "E", "F", "G", "H", "I", "J", "K", "L", "M", "N", "O", "P", "Q",
     "R", "S", "T", "U", "V", "W", "X", "Y", "Z"}
Digits == {"0", "1", "2", "3", "4", "5", "6", "7", "8", "9"}
WhiteSpace == {" ", LF, CR, "\t"}

SetMin(S) == CHOOSE m \in S : \A n \in S : m <= n
SetMax(S) == CHOOSE m \in S : \A n \in S : n <= m

(***************************************************************************)
(* JavaScript string primitives                                            *)
(***************************************************************************)
\* The start indexes of the occurrences of pat in s.
Matches(s, pat) ==
    {i \in 1..(Len(s) - Len(pat) + 1) : SubSeq(s, i, i + Len(pat) - 1) = pat}

\* The first occurrence of pat in s at or after from; 0 when there is none.
NextMatch(s, pat, from) ==
    LET M == {i \in Matches(s, pat) : i >= from}
    IN  IF M = {} THEN 0 ELSE SetMin(M)

Contains(s, pat) == Matches(s, pat) # {}

\* GetSubstitution: the replacement string with its $ patterns expanded.
\* No pattern of the source has a capture group, so $1..$9 stay literal.
RECURSIVE GetSubstitution(_, _, _, _)
GetSubstitution(repl, matched, before, after) ==
    IF repl = <<>> THEN <<>>
    ELSE IF Head(repl) = "$" /\ Len(repl) >= 2 /\ repl[2] \in {"$", "&", BACKTICK, APOS}
    THEN (CASE repl[2] = "$" -> <<"$">>
            [] repl[2] = "&" -> matched
            [] repl[2] = BACKTICK -> before
            [] repl[2] = APOS -> after)
         \o GetSubstitution(SubSeq(repl, 3, Len(repl)), matched, before, after)
    ELSE <<Head(repl)>> \o GetSubstitution(Tail(repl), matched, before, after)

\* s from index from on, with the next occurrence of pat (every occurrence
\* when all) replaced: the scan resumes after the replaced span.
RECURSIVE ReplaceFrom(_, _, _, _, _)
ReplaceFrom(s, pat, repl, from, all) ==
    LET i == NextMatch(s, pat, from)
        j == i + Len(pat)
    IN  IF i = 0 THEN SubSeq(s, from, Len(s))
        ELSE SubSeq(s, from, i - 1)
             \o GetSubstitution(repl, pat, SubSeq(s, 1, i - 1), SubSeq(s, j, Len(s)))
             \o (IF all THEN ReplaceFrom(s, pat, repl, j, TRUE) ELSE SubSeq(s, j, Len(s)))

\* s.replace(/pat/g, repl) and s.replaceAll("pat", repl)
ReplaceAll(s, pat, repl) == ReplaceFrom(s, pat, repl, 1, TRUE)

\* s.replace("pat", repl): a string pattern replaces the first occurrence only
ReplaceFirst(s, pat, repl) == ReplaceFrom(s, pat, repl, 1, FALSE)

\* s.trim()
Trim(s) ==
    LET I == {i \in DOMAIN s : s[i] \notin WhiteSpace}
    IN  IF I = {} THEN <<>> ELSE SubSeq(s, SetMin(I), SetMax(I))

\* s.split(sep) for a non-empty string separator
RECURSIVE SplitFrom(_, _, _)
SplitFrom(s, sep, from) ==
    LET i == NextMatch(s, sep, from)
    IN  IF i = 0 THEN <<SubSeq(s, from, Len(s))>>
        ELSE <<SubSeq(s, from, i - 1)>> \o SplitFrom(s, sep, i + Len(sep))

Split(s, sep) == SplitFrom(s, sep, 1)

\* parts.join(sep)
RECURSIVE Join(_, _)
Join(parts, sep) ==
    IF parts = <<>> THEN <<>>
    ELSE IF Len(parts) = 1 THEN parts[1]
    ELSE parts[1] \o sep \o Join(Tail(parts), sep)

\* encodeURIComponent: A-Z a-z 0-9 - _ . ! ~ * ' ( ) are kept, every other
\* character becomes the %XX of its UTF-8 byte.
Unreserved == Letters \cup Digits \cup {"-", "_", ".", "!", "~", "*", APOS, "(", ")"}

PercentCode(c) ==
    CASE c = " " -> <<"%", "2", "0">>
      [] c = LF -> <<"%", "0", "A">>
      [] c = CR -> <<"%", "0", "D">>
      [] c = "\t" -> <<"%", "0", "9">>
      [] c = "$" -> <<"%", "2", "4">>
      [] c = "&" -> <<"%", "2", "6">>
      [] c = "," -> <<"%", "2", "C">>
      [] c = ":" -> <<"%", "3", "A">>
      [] c = "<" -> <<"%", "3", "C">>
      [] c = ">" -> <<"%", "3", "E">>
      [] c = "@" -> <<"%", "4", "0">>
      [] c = "[" -> <<"%", "5", "B">>
      [] c = "]" -> <<"%", "5", "D">>
      [] c = BACKTICK -> <<"%", "6", "0">>
      [] c = "{" -> <<"%", "7", "B">>
      [] c = "}" -> <<"%", "7", "D">>

RECURSIVE encodeURIComponent(_)
encodeURIComponent(s) ==
    IF Len(s) = 0 THEN <<>>
    ELSE IF Len(s) = 1
    THEN (IF s[1] \in Unreserved THEN s ELSE PercentCode(s[1]))
    ELSE LET h == Len(s) \div 2
         IN  encodeURIComponent(SubSeq(s, 1, h)) \o encodeURIComponent(SubSeq(s, h + 1, Len(s)))

(***************************************************************************)
(* Validation of the sender input and of the stored configuration          *)
(***************************************************************************)
\* /^[^\s@]+@[^\s@]+\.[^\s@]+$/
validateEmail(email) ==
    LET ats == {i \in DOMAIN email : email[i] = "@"}
        at == SetMin(ats)
    IN  /\ Cardinality(ats) = 1
        /\ \A i \in DOMAIN email : email[i] \notin WhiteSpace
        /\ at > 1
        /\ \E d \in (at + 2)..(Len(email) - 1) : email[d] = "."

\* /^[A-Za-z]{2}[0-9]{1,2} ?[0-9][A-Za-z]{2}$/ on the trimmed value; optional
validatePostcode(postcode) ==
    LET t == Trim(postcode)
    IN  \/ t = <<>>
        \/ \E nd \in 1..2, sp \in 0..1 :
              /\ Len(t) = 2 + nd + sp + 3
              /\ \A i \in 1..2 : t[i] \in Letters
              /\ \A i \in 3..(2 + nd) : t[i] \in Digits
              /\ sp = 1 => t[3 + nd] = " "
              /\ t[3 + nd + sp] \in Digits
              /\ \A i \in (4 + nd + sp)..(5 + nd + sp) : t[i] \in Letters

\* z.string().email(): one "@", a local part of word characters that neither
\* starts nor ends with a dot, dot-separated domain labels and a top-level
\* domain of at least two letters.
zodEmail(email) ==
    LET ats == {i \in DOMAIN email : email[i] = "@"}
        at == SetMin(ats)
        dots == {i \in (at + 1)..Len(email) : email[i] = "."}
        last == SetMax(dots)
    IN  /\ Cardinality(ats) = 1
        /\ at > 1
        /\ \A i \in 1..(at - 1) : email[i] \in Letters \cup Digits \cup {"_", APOS, "+", "-", "."}
        /\ email[1] # "." /\ email[at - 1] # "."
        /\ \A i \in 1..(at - 2) : ~(email[i] = "." /\ email[i + 1] = ".")
        /\ dots # {}
        /\ \A i \in (at + 1)..Len(email) : email[i] \in Letters \cup Digits \cup {"-", "."}
        /\ \A i \in dots \cup {at} : i < Len(email) /\ email[i + 1] \in Letters \cup Digits
        /\ Len(email) - last >= 2
        /\ \A i \in (last + 1)..Len(email) : email[i] \in Letters

\* legacyEmailSubmissionSchema: name min(1), email, optional postcode and note
legacyEmailSubmissionSchema(f) == Len(f.name) >= 1 /\ zodEmail(f.email)

\* campaignConfigSchema: the only writer of the configuration file that
\* storage.getCampaignConfig reads parses the request with it.
campaignConfigSchema(c, rs) ==
    /\ Len(c.subject) >= 1
    /\ Len(c.body) >= 1
    /\ Len(rs) >= 1
    /\ \A i \in DOMAIN rs : zodEmail(rs[i].email)

\* unique("unique_recipient_per_campaign").on(campaignId, email)
unique_recipient_per_campaign(rs) ==
    Cardinality({rs[i].email : i \in DOMAIN rs}) = Len(rs)

(***************************************************************************)
(* Length/compatibility checker (client/src/lib/email-utils.ts)            *)
(***************************************************************************)
MAILTO_LENGTH_WARNING == 1800
MAILTO_LENGTH_CRITICAL == 2000

\* Variant: the thresholds compared with >= instead of >.
checkEmailLength_Inclusive(subject, body) ==
    LET totalLength == Len(MailtoScheme \o SubjectParam \o encodeURIComponent(subject)
                           \o BodyParam \o encodeURIComponent(body))
    IN  IF totalLength >= MAILTO_LENGTH_CRITICAL
        THEN [totalLength |-> totalLength, isWarning |-> FALSE, isCritical |-> TRUE,
              message |-> <<"Email is too long", totalLength>>]
        ELSE IF totalLength >= MAILTO_LENGTH_WARNING
        THEN [totalLength |-> totalLength, isWarning |-> TRUE, isCritical |-> FALSE,
              message |-> <<"Email is getting long", totalLength>>]
        ELSE [totalLength |-> totalLength, isWarning |-> FALSE, isCritical |-> FALSE,
              message |-> <<>>]

\* Variant: a critical length is a warning as well.
checkEmailLength_BothFlags(subject, body) ==
    LET totalLength == Len(MailtoScheme \o SubjectParam \o encodeURIComponent(subject)
                           \o BodyParam \o encodeURIComponent(body))
    IN  IF totalLength > MAILTO_LENGTH_WARNING
        THEN [totalLength |-> totalLength, isWarning |-> TRUE,
              isCritical |-> totalLength > MAILTO_LENGTH_CRITICAL,
              message |-> <<"Email is getting long", totalLength>>]
        ELSE [totalLength |-> totalLength, isWarning |-> FALSE, isCritical |-> FALSE,
              message |-> <<>>]

checkEmailLength(subject, body) ==
    LET encodedSubject == encodeURIComponent(subject)
        encodedBody == encodeURIComponent(body)
        totalLength == Len(MailtoScheme \o SubjectParam \o encodedSubject
                           \o BodyParam \o encodedBody)
    IN  IF totalLength > MAILTO_LENGTH_CRITICAL
        THEN [totalLength |-> totalLength, isWarning |-> FALSE, isCritical |-> TRUE,
              message |-> <<"Email is too long", totalLength>>]
        ELSE IF totalLength > MAILTO_LENGTH_WARNING
        THEN [totalLength |-> totalLength, isWarning |-> TRUE, isCritical |-> FALSE,
              message |-> <<"Email is getting long", totalLength>>]
        ELSE [totalLength |-> totalLength, isWarning |-> FALSE, isCritical |-> FALSE,
              message |-> <<>>]

(***************************************************************************)
(* POST /api/generate-email (server/routes.ts)                             *)
(***************************************************************************)
\* Variant: the render also signs the body with the sender's name.
RouteRender_Signed(body, name, postcode) ==
    ReplaceAll(ReplaceAll(body, TokName, name), TokPostcode, postcode) \o <<LF>> \o name

\* body.replace(/{{name}}/g, name) then body.replace(/{{postcode}}/g, postcode || '')
RouteRender(body, name, postcode) ==
    ReplaceAll(ReplaceAll(body, TokName, name), TokPostcode, postcode)

\* Variant: the note follows a single newline, with no blank line.
RouteBody_NoBlankLine(body, f) ==
    LET rendered == ReplaceAll(ReplaceAll(body, TokName, f.name), TokPostcode, f.postcode)
    IN  IF f.note # <<>> THEN rendered \o <<LF>> \o PS \o f.note ELSE rendered

RouteBody(body, f) ==
    LET rendered == RouteRender(body, f.name, f.postcode)
    IN  IF f.note # <<>> THEN rendered \o BlankLine \o PS \o f.note ELSE rendered

\* Variant: an address listed twice is kept once.
RouteRecipientEmails_Dedup(rs) ==
    LET first == SelectSeq([i \in DOMAIN rs |-> i],
                           LAMBDA i : \A j \in 1..(i - 1) : rs[j].email # rs[i].email)
    IN  Join([k \in DOMAIN first |-> rs[first[k]].email], <<",">>)

\* config.recipients.map(r => r.email).join(',')
RouteRecipientEmails(rs) == Join([i \in DOMAIN rs |-> rs[i].email], <<",">>)

RouteMailtoUrl(c, rs, f) ==
    MailtoScheme \o RouteRecipientEmails(rs)
        \o SubjectParam \o encodeURIComponent(c.subject)
        \o BodyParam \o encodeURIComponent(RouteBody(c.body, f))

(***************************************************************************)
(* buildMailto of the simple front end (unnamed/part_005)                  *)
(***************************************************************************)
\* .replace("{{name}}", ...).replace("{{postcode}}", ...): string patterns
SimpleRender(body, name, postcode) ==
    ReplaceFirst(ReplaceFirst(body, TokName, Trim(name)), TokPostcode, Trim(postcode))

SimpleBody(body, f) ==
    LET rendered == SimpleRender(body, f.name, f.postcode)
        note == Trim(f.note)
    IN  IF note # <<>> THEN rendered \o BlankLine \o PS \o note ELSE rendered

SimpleMailtoUrl(c, rs, f) ==
    LET to == Join([i \in DOMAIN rs |-> rs[i].email], <<",">>)
        subject == IF c.subject # <<>> THEN c.subject ELSE DefaultSubjectSimple
        encBody == encodeURIComponent(ReplaceAll(SimpleBody(c.body, f), <<LF>>, <<CR, LF>>))
        encSubject == encodeURIComponent(subject)
    IN  MailtoScheme \o to \o SubjectParam \o encSubject \o BodyParam \o encBody

(***************************************************************************)
(* applyPlaceholders and buildMailto (EmailCampaigns/frontend/script.js)   *)
(***************************************************************************)
applyPlaceholders(template, name, postcode) ==
    ReplaceAll(ReplaceAll(template, TokName, name), TokPostcode, postcode)

FrontendBody(body, f) ==
    LET bodyFilled == applyPlaceholders(body, Trim(f.name), Trim(f.postcode))
        note == Trim(f.note)
    IN  IF note # <<>> THEN bodyFilled \o BlankLine \o PS \o note ELSE bodyFilled

FrontendMailtoUrl(c, rs, f) ==
    LET to == Join([i \in DOMAIN rs |-> rs[i].email], <<",">>)
        encSubject == encodeURIComponent(c.subject)
        encBody == encodeURIComponent(ReplaceAll(FrontendBody(c.body, f), <<LF>>, <<CR, LF>>))
    IN  MailtoScheme \o to \o SubjectParam \o encSubject \o BodyParam \o encBody

(***************************************************************************)
(* Submit handler of the legacy campaign page (EmailCampaigns/script.js)   *)
(***************************************************************************)
LegacyRender(body, name, postcode) ==
    ReplaceAll(ReplaceAll(body, TokName, name), TokPostcode, postcode)

LegacyBody(body, f) ==
    LET rendered == LegacyRender(body, Trim(f.name), Trim(f.postcode))
        note == Trim(f.note)
    IN  IF note # <<>> THEN rendered \o BlankLine \o PersonalNoteLabel \o note ELSE rendered

\* config.recipients.map(r => r.email).filter(Boolean).join(',')
LegacyRecipientEmails(rs) ==
    Join(SelectSeq([i \in DOMAIN rs |-> rs[i].email], LAMBDA e : e # <<>>), <<",">>)

LegacyMailtoUrl(c, rs, f) ==
    LET subject == IF c.subject # <<>> THEN c.subject ELSE DefaultSubjectLegacy
    IN  MailtoScheme \o LegacyRecipientEmails(rs)
            \o SubjectParam \o encodeURIComponent(subject)
            \o BodyParam \o encodeURIComponent(LegacyBody(c.body, f))

\* The field checks of the submit handler: name of two characters or more,
\* valid email, valid optional postcode.
LegacyFormValid(f) ==
    /\ Len(Trim(f.name)) >= 2
    /\ validateEmail(Trim(f.email))
    /\ (Trim(f.postcode) # <<>> => validatePostcode(Trim(f.postcode)))

(***************************************************************************)
(* The campaign page, one email per recipient (unnamed/part_001)           *)
(***************************************************************************)
\* body.replace(/\{\{name\}\}/g, formData.name || "[Your Name]") and the same
\* for the postcode with "[Your Postcode]"
RecipientRender(body, name, postcode) ==
    ReplaceAll(ReplaceAll(body, TokName, IF name # <<>> THEN name ELSE YourName),
               TokPostcode, IF postcode # <<>> THEN postcode ELSE YourPostcode)

\* Variant: the note always goes to the end.
generateEmailBody_AppendAtEnd(body, f) ==
    LET rendered == RecipientRender(body, f.name, f.postcode)
        note == Trim(f.note)
    IN  IF note # <<>> THEN rendered \o BlankLine \o note ELSE rendered

generateEmailBody(body, f) ==
    LET rendered == RecipientRender(body, f.name, f.postcode)
        note == Trim(f.note)
        paragraphs == Split(rendered, BlankLine)
    IN  IF note # <<>>
        THEN IF Len(paragraphs) > 1
             THEN Join(<<paragraphs[1], note>> \o Tail(paragraphs), BlankLine)
             ELSE rendered \o BlankLine \o note
        ELSE rendered

generateMailtoLink(c, recipient, f) ==
    MailtoScheme \o recipient.email
        \o SubjectParam \o encodeURIComponent(c.subject)
        \o BodyParam \o encodeURIComponent(generateEmailBody(c.body, f))

checkRecipientEmailLength(c, f) == checkEmailLength(c.subject, generateEmailBody(c.body, f))

\* `To: ${recipient.email}\nSubject: ${campaign.subject}\n\n${generateEmailBody(recipient)}`
ClipboardText(c, recipient, f) ==
    ToHeader \o recipient.email \o <<LF>> \o SubjectHeader \o c.subject
        \o BlankLine \o generateEmailBody(c.body, f)

(***************************************************************************)
(* Letter body of generateLetterPDF (client/src/lib/email-utils.ts)        *)
(***************************************************************************)
LetterRender(body, name, postcode) ==
    ReplaceAll(ReplaceAll(body, TokName, name),
               TokPostcode, IF postcode # <<>> THEN postcode ELSE YourPostcode)

LetterBody(body, f) ==
    LET bodyText == LetterRender(body, f.name, f.postcode)
    IN  IF f.note # <<>> THEN bodyText \o BlankLine \o f.note ELSE bodyText

(***************************************************************************)
(* The printable documents (client/src/lib/email-utils.ts).  A document is *)
(* the sequence of its pages, a page the sequence of the texts drawn on    *)
(* it, each with its position, font size and font style.                   *)
(* splitTextToSize is computed for lines that fit the width it is given:   *)
(* it splits the text at its line feeds.                                   *)
(***************************************************************************)
\* new jsPDF({orientation: 'portrait', unit: 'mm', format: 'a4'})
pageHeight == 297
margin == 20
lineHeight == 7

jsPDF == <<<<>>>>

addPage(pdf) == Append(pdf, <<>>)

\* A document has a page from its construction on.  The loops below test
\* Len(pdf) = 0, which never holds, so that TLC evaluates the document (and
\* the counters) at each iteration instead of nesting the iterations.

\* pdf.text(str, x, y) on the current page, in the font that is set
text(pdf, str, x, y, size, style) ==
    [pdf EXCEPT ![Len(pdf)] =
        Append(@, [text |-> str, x |-> x, y |-> y, size |-> size, style |-> style])]

splitTextToSize(str) == Split(str, <<LF>>)

\* the texts of a sequence of [text, y, size, style] drawn at the left margin
RECURSIVE texts(_, _)
texts(pdf, items) ==
    IF items = <<>> \/ Len(pdf) = 0 THEN pdf
    ELSE texts(text(pdf, items[1].text, margin, items[1].y, items[1].size, items[1].style),
               Tail(items))

\* textLines.forEach(...): a line below the bottom margin opens a new page
RECURSIVE LetterLines(_, _, _)
LetterLines(pdf, textLines, yPosition) ==
    IF textLines = <<>> \/ Len(pdf) = 0 THEN [pdf |-> pdf, yPosition |-> yPosition]
    ELSE LET broken == yPosition > pageHeight - margin
             p == IF broken THEN addPage(pdf) ELSE pdf
             y == IF broken THEN margin ELSE yPosition
         IN  LetterLines(text(p, textLines[1], margin, y, 11, "normal"),
                         Tail(textLines), y + lineHeight)

\* Variant: every letter goes on the page the one before it ended on.
blockPage_Shared(pdf, recipientIndex) == pdf

\* if (recipientIndex > 0) pdf.addPage()
blockPage(pdf, recipientIndex) == IF recipientIndex > 0 THEN addPage(pdf) ELSE pdf

\* The body of data.recipients.forEach((recipient, recipientIndex) => ...)
LetterBlock(pdf, title, today, c, f, recipient, recipientIndex) ==
    LET p0 == blockPage(pdf, recipientIndex)
        yTitle == margin
        yDate == yTitle + lineHeight * 2
        yFrom == yDate + lineHeight * 2
        yMail == yFrom + lineHeight * 2
        yCode == IF f.postcode # <<>> THEN yMail + lineHeight ELSE yMail
        yTo == yCode + lineHeight * 2
        ySubject == yTo + lineHeight * 2 + lineHeight * 2
        head ==
            <<[text |-> title, y |-> yTitle, size |-> 16, style |-> "bold"],
              [text |-> today, y |-> yDate, size |-> 11, style |-> "normal"],
              [text |-> <<"F", "r", "o", "m", ":">>, y |-> yFrom, size |-> 11, style |-> "bold"],
              [text |-> f.name, y |-> yFrom + lineHeight, size |-> 11, style |-> "normal"],
              [text |-> f.email, y |-> yMail, size |-> 11, style |-> "normal"]>>
            \o (IF f.postcode # <<>>
                THEN <<[text |-> f.postcode, y |-> yCode, size |-> 11, style |-> "normal"]>>
                ELSE <<>>)
            \o <<[text |-> <<"T", "o", ":">>, y |-> yTo, size |-> 11, style |-> "bold"],
                 [text |-> recipient.name, y |-> yTo + lineHeight, size |-> 11,
                  style |-> "normal"],
                 [text |-> recipient.email, y |-> yTo + lineHeight * 2, size |-> 11,
                  style |-> "normal"],
                 [text |-> SubjectHeader \o c.subject, y |-> ySubject, size |-> 11,
                  style |-> "bold"]>>
        p1 == texts(p0, head)
        body == LetterLines(p1, splitTextToSize(LetterBody(c.body, f)),
                            ySubject + lineHeight * 2)
        ySign == body.yPosition + lineHeight * 2
        broken == ySign > pageHeight - margin * 3
        p2 == IF broken THEN addPage(body.pdf) ELSE body.pdf
        y == IF broken THEN margin ELSE ySign
    IN  text(text(p2, <<"S", "i", "n", "c", "e", "r", "e", "l", "y", ",">>, margin, y,
                  11, "normal"),
             f.name, margin, y + lineHeight * 2, 11, "normal")

RECURSIVE LetterBlocks(_, _, _, _, _, _, _)
LetterBlocks(pdf, title, today, c, f, rs, recipientIndex) ==
    IF recipientIndex >= Len(rs) \/ Len(pdf) = 0 THEN pdf
    ELSE LetterBlocks(LetterBlock(pdf, title, today, c, f, rs[recipientIndex + 1],
                                  recipientIndex),
                      title, today, c, f, rs, recipientIndex + 1)

generateLetterPDF(title, today, c, f, rs) == LetterBlocks(jsPDF, title, today, c, f, rs, 0)

(***************************************************************************)
(* generateAddressLabelsPDF.  The lengths of the label sheet are in tenths *)
(* of a millimetre, so that 63.5, 38.1 and 2.5 are integers.               *)
(***************************************************************************)
labelWidth == 635
labelHeight == 381
labelsPerRow == 3
labelsPerColumn == 7
leftMargin == 100
topMargin == 100
horizontalGap == 25
verticalGap == 0

\* addressLines.forEach(...): one line every 5 mm
RECURSIVE AddressLines(_, _, _, _)
AddressLines(pdf, addressLines, x, yOffset) ==
    IF addressLines = <<>> \/ Len(pdf) = 0 THEN [pdf |-> pdf, yOffset |-> yOffset]
    ELSE AddressLines(text(pdf, addressLines[1], x, yOffset, 9, "normal"),
                      Tail(addressLines), x, yOffset + 50)

drawLabel(pdf, position, prefix, labelData) ==
    LET row == position \div labelsPerRow
        col == position % labelsPerRow
        x == leftMargin + col * (labelWidth + horizontalGap)
        y == topMargin + row * (labelHeight + verticalGap)
        p1 == text(text(pdf, prefix, x + 50, y + 100, 10, "bold"),
                   labelData.name, x + 50, y + 160, 11, "normal")
        a == IF labelData.address # <<>>
             THEN AddressLines(p1, splitTextToSize(labelData.address), x + 50, y + 220)
             ELSE [pdf |-> p1, yOffset |-> y + 220]
    IN  IF labelData.postcode # <<>>
        THEN text(a.pdf, labelData.postcode, x + 50, a.yOffset, 10, "normal")
        ELSE a.pdf

\* Variant: the sheet is full one label later.
sheetFull_OneLate(currentLabel) == currentLabel > labelsPerRow * labelsPerColumn

\* if (currentLabel >= labelsPerRow * labelsPerColumn)
sheetFull(currentLabel) == currentLabel >= labelsPerRow * labelsPerColumn

\* data.recipients.forEach((recipient) => ...)
RECURSIVE RecipientLabels(_, _, _, _)
RecipientLabels(pdf, rs, i, currentLabel) ==
    IF i > Len(rs) \/ Len(pdf) = 0 \/ currentLabel < 0 THEN pdf
    ELSE LET p == IF sheetFull(currentLabel) THEN addPage(pdf) ELSE pdf
             position == IF sheetFull(currentLabel) THEN 0 ELSE currentLabel
             recipientLabel ==
                 [name |-> rs[i].name, address |-> rs[i].email, postcode |-> <<>>]
         IN  RecipientLabels(drawLabel(p, position, <<"T", "o", ":">>, recipientLabel),
                             rs, i + 1, position + 1)

generateAddressLabelsPDF(f, rs) ==
    LET senderLabel == [name |-> f.name, address |-> f.email, postcode |-> f.postcode]
    IN  RecipientLabels(drawLabel(jsPDF, 0, <<"F", "r", "o", "m", ":">>, senderLabel),
                        rs, 1, 1)

(***************************************************************************)
(* Inputs                                                                  *)
(***************************************************************************)
MaxPieces == 3
MaxRecipients == 3

Pieces ==
    {TokName, TokPostcode, <<"{", "{", "p", "o", "s", "t">>, <<"}", "}">>, <<"A", LF, LF>>}

RECURSIVE Concats(_)
Concats(k) ==
    IF k = 0 THEN {<<>>}
    ELSE Concats(k - 1) \cup {p \o t : p \in Pieces, t \in Concats(k - 1)}

Templates == Concats(MaxPieces)

Names == {<<>>, <<"J", "o">>, <<"$", "&">>, <<"c", "o", "d", "e">>}
Postcodes == {<<>>, <<"B", "T", "1", " ", "1", "A", "A">>, <<"c", "o", "d", "e">>}
Notes == {<<>>, <<"A", "c", "t">>, <<" ">>}
SenderEmail == <<"j", "@", "x", ".", "i", "o">>
Subject == <<"A", " ", "b">>

RcptA == [name |-> <<"A">>, email |-> <<"a", "@", "x", ".", "i", "o">>]
RcptB == [name |-> <<"B">>, email |-> <<"b", "@", "x", ".", "i", "o">>]
\* An entry without an email: POST /admin/update of the legacy server stores
\* the configuration it is sent without validating it.
RcptNoEmail == [name |-> <<"C">>, email |-> <<>>]

RECURSIVE RecipientLists(_)
RecipientLists(k) ==
    IF k = 0 THEN {<<>>}
    ELSE RecipientLists(k - 1)
         \cup {<<r>> \o rs : r \in {RcptA, RcptB, RcptNoEmail}, rs \in RecipientLists(k - 1)}

\* campaign.title, and the text of new Date().toLocaleDateString('en-GB', ...)
CampaignTitle == <<"T">>
Today ==
    <<"5", " ", "N", "o", "v", "e", "m", "b", "e", "r", " ", "2", "0", "2", "6">>

NoCheck == [totalLength |-> 0, isWarning |-> FALSE, isCritical |-> FALSE, message |-> <<>>]
NoOut ==
    [site |-> "none", status |-> "none", to |-> 0, body |-> <<>>, url |-> <<>>,
     text |-> <<>>, check |-> NoCheck, pdf |-> <<>>]

(***************************************************************************)
(* The campaign page (unnamed/part_001), the campaign store and the        *)
(* requests in flight to POST /api/campaigns/:id/submit                    *)
(***************************************************************************)
MaxCampaigns == 2
MaxSends == 2
MaxDirect == 2
MaxShareTimers == 1

\* toast({ title, description }) of the campaign page
CampaignInactiveText ==
    <<"T", "h", "i", "s", " ", "c", "a", "m", "p", "a", "i", "g", "n", " ", "i", "s",
      " ", "n", "o", " ", "l", "o", "n", "g", "e", "r", " ", "a", "c", "t", "i", "v",
      "e", " ", "a", "n", "d", " ", "c", "a", "n", "n", "o", "t", " ", "a", "c", "c",
      "e", "p", "t", " ", "s", "u", "b", "m", "i", "s", "s", "i", "o", "n", "s">>
EmailTooLongText ==
    <<"T", "h", "e", " ", "e", "m", "a", "i", "l", " ", "i", "s", " ", "t", "o", "o",
      " ", "l", "o", "n", "g", " ", "f", "o", "r", " ", "s", "o", "m", "e", " ", "r",
      "e", "c", "i", "p", "i", "e", "n", "t", "s", ".", " ", "P", "l", "e", "a", "s",
      "e", " ", "u", "s", "e", " ", "t", "h", "e", " ", "c", "o", "p", "y", " ", "b",
      "u", "t", "t", "o", "n", " ", "i", "n", "s", "t", "e", "a", "d", " ", "o", "r",
      " ", "s", "h", "o", "r", "t", "e", "n", " ", "y", "o", "u", "r", " ", "m", "e",
      "s", "s", "a", "g", "e", ".">>
EmailSentText ==
    <<"Y", "o", "u", "r", " ", "e", "m", "a", "i", "l", " ", "h", "a", "s", " ", "b",
      "e", "e", "n", " ", "s", "e", "n", "t", " ", "t", "o", " ", "t", "h", "e", " ",
      "r", "e", "p", "r", "e", "s", "e", "n", "t", "a", "t", "i", "v", "e", "s", ".",
      " ", "T", "h", "a", "n", "k", " ", "y", "o", "u", " ", "f", "o", "r", " ", "t",
      "a", "k", "i", "n", "g", " ", "a", "c", "t", "i", "o", "n", "!">>
FailedToSendText ==
    <<"F", "a", "i", "l", "e", "d", " ", "t", "o", " ", "s", "e", "n", "d", " ", "e",
      "m", "a", "i", "l">>

NoToast == [title |-> "", description |-> <<>>]
CampaignInactiveToast == [title |-> "Campaign Inactive", description |-> CampaignInactiveText]
EmailTooLongToast == [title |-> "Email Too Long", description |-> EmailTooLongText]
EmailSentToast == [title |-> "Email Sent!", description |-> EmailSentText]
\* description: error.message || "Failed to send email"
ErrorToast == [title |-> "Error", description |-> FailedToSendText]

\* getSavedUserData() without saved data
EmptyForm == [name |-> <<>>, email |-> <<>>, postcode |-> <<>>, note |-> <<>>]

\* req.user.claims.sub of the sessions: no session, two users, an admin
Anonymous == ""
Users == {"ann", "bob", "root"}
\* storage.checkUserIsAdmin(userId): users.isAdmin
checkUserIsAdmin(userId) == userId = "root"

NoCampaign ==
    [exists |-> FALSE, isPublic |-> FALSE, isActive |-> FALSE, recipients |-> <<>>,
     userId |-> Anonymous]
NoSrv ==
    [campaigns |-> [id \in 1..MaxCampaigns |-> NoCampaign], nextId |-> 1, submissions |-> {},
     db |-> FALSE, emailSends |-> {}, campaignStats |-> 0, analyticsFile |-> <<>>]
NoPage ==
    [campaign |-> [id |-> 0, isActive |-> FALSE], recipients |-> <<>>, defaults |-> EmptyForm,
     hasShared |-> FALSE, showShareDialog |-> FALSE, shareTimers |-> 0, sent |-> <<>>,
     timers |-> {}, opened |-> <<>>, toast |-> NoToast, budget |-> 0]

\* Rendering: many templates and sender values, one recipient list.
Init ==
    /\ cfg \in [subject : {Subject}, body : Templates]
    /\ recipients = <<RcptA, RcptB>>
    /\ form \in [name : Names, email : {SenderEmail}, postcode : Postcodes, note : Notes]
    /\ out = NoOut
    /\ page = NoPage /\ srv = NoSrv /\ reqs = <<>>

(***************************************************************************)
(* Handlers.  No handler reads the result of an earlier one, so a          *)
(* behaviour applies one handler to the inputs Init has drawn.             *)
(***************************************************************************)
Idle == out.site = "none"

\* app.post('/api/generate-email', ...)
GenerateEmail ==
    /\ Idle
    /\ campaignConfigSchema(cfg, recipients)
    /\ out' = IF legacyEmailSubmissionSchema(form)
              THEN [NoOut EXCEPT !.site = "generate-email", !.status = "200",
                                 !.body = RouteBody(cfg.body, form),
                                 !.url = RouteMailtoUrl(cfg, recipients, form)]
              ELSE [NoOut EXCEPT !.site = "generate-email", !.status = "400"]
    /\ UNCHANGED <<cfg, recipients, form, page, srv, reqs>>

\* els.form.addEventListener("submit", ...) of unnamed/part_005
SimpleSubmit ==
    /\ Idle
    /\ out' = [NoOut EXCEPT !.site = "simple", !.status = "opened",
                            !.body = SimpleBody(cfg.body, form),
                            !.url = SimpleMailtoUrl(cfg, recipients, form)]
    /\ UNCHANGED <<cfg, recipients, form, page, srv, reqs>>

\* els.form.addEventListener("submit", ...) of EmailCampaigns/frontend/script.js
FrontendSubmit ==
    /\ Idle
    /\ out' = [NoOut EXCEPT !.site = "frontend", !.status = "opened",
                            !.body = FrontendBody(cfg.body, form),
                            !.url = FrontendMailtoUrl(cfg, recipients, form)]
    /\ UNCHANGED <<cfg, recipients, form, page, srv, reqs>>

\* campaignForm.addEventListener('submit', ...) of EmailCampaigns/script.js
LegacySubmit ==
    /\ Idle
    /\ out' = IF ~LegacyFormValid(form)
              THEN [NoOut EXCEPT !.site = "legacy", !.status = "invalid"]
              ELSE IF LegacyRecipientEmails(recipients) = <<>>
              THEN [NoOut EXCEPT !.site = "legacy", !.status = "no-recipients"]
              ELSE [NoOut EXCEPT !.site = "legacy", !.status = "opened",
                                 !.body = LegacyBody(cfg.body, form),
                                 !.url = LegacyMailtoUrl(cfg, recipients, form)]
    /\ UNCHANGED <<cfg, recipients, form, page, srv, reqs>>

\* The length check handleSendEmails runs for recipient i
CheckRecipient(i) ==
    /\ Idle
    /\ unique_recipient_per_campaign(recipients)
    /\ out' = [NoOut EXCEPT !.site = "check", !.status = "checked", !.to = i,
                            !.body = generateEmailBody(cfg.body, form),
                            !.check = checkRecipientEmailLength(cfg, form)]
    /\ UNCHANGED <<cfg, recipients, form, page, srv, reqs>>

\* The timer callback of handleSendEmails for recipient i: it is scheduled
\* only when no recipient's check is critical.
OpenMailtoLink(i) ==
    /\ Idle
    /\ unique_recipient_per_campaign(recipients)
    /\ ~checkRecipientEmailLength(cfg, form).isCritical
    /\ out' = [NoOut EXCEPT !.site = "mailto", !.status = "opened", !.to = i,
                            !.body = generateEmailBody(cfg.body, form),
                            !.url = generateMailtoLink(cfg, recipients[i], form),
                            !.check = checkRecipientEmailLength(cfg, form)]
    /\ UNCHANGED <<cfg, recipients, form, page, srv, reqs>>

copyEmailToClipboard(i) ==
    /\ Idle
    /\ unique_recipient_per_campaign(recipients)
    /\ out' = [NoOut EXCEPT !.site = "clipboard", !.status = "copied", !.to = i,
                            !.body = generateEmailBody(cfg.body, form),
                            !.text = ClipboardText(cfg, recipients[i], form)]
    /\ UNCHANGED <<cfg, recipients, form, page, srv, reqs>>

handleGenerateLetterPDF ==
    /\ Idle
    /\ unique_recipient_per_campaign(recipients)
    /\ out' = IF Len(recipients) = 0
              THEN [NoOut EXCEPT !.site = "letter", !.status = "cannot"]
              ELSE IF form.name = <<>> \/ form.email = <<>>
              THEN [NoOut EXCEPT !.site = "letter", !.status = "missing"]
              ELSE [NoOut EXCEPT !.site = "letter", !.status = "pdf",
                                 !.body = LetterBody(cfg.body, form),
                                 !.pdf = generateLetterPDF(CampaignTitle, Today, cfg, form,
                                                           recipients)]
    /\ UNCHANGED <<cfg, recipients, form, page, srv, reqs>>

handleGenerateAddressLabelsPDF ==
    /\ Idle
    /\ unique_recipient_per_campaign(recipients)
    /\ out' = IF Len(recipients) = 0
              THEN [NoOut EXCEPT !.site = "labels", !.status = "cannot"]
              ELSE IF form.name = <<>> \/ form.email = <<>>
              THEN [NoOut EXCEPT !.site = "labels", !.status = "missing"]
              ELSE [NoOut EXCEPT !.site = "labels", !.status = "pdf",
                                 !.pdf = generateAddressLabelsPDF(form, recipients)]
    /\ UNCHANGED <<cfg, recipients, form, page, srv, reqs>>

Next ==
    \/ GenerateEmail
    \/ SimpleSubmit
    \/ FrontendSubmit
    \/ LegacySubmit
    \/ \E i \in DOMAIN recipients : CheckRecipient(i)
    \/ \E i \in DOMAIN recipients : OpenMailtoLink(i)
    \/ \E i \in DOMAIN recipients : copyEmailToClipboard(i)
    \/ handleGenerateLetterPDF

Spec == Init /\ [][Next]_vars

(***************************************************************************)
(* Link building: few templates, every recipient list of the legacy and    *)
(* of the validated stores up to MaxRecipients entries.                    *)
(***************************************************************************)
InitLink ==
    /\ cfg \in [subject : {Subject, <<>>}, body : {<<"A", LF, LF>> \o TokName}]
    /\ recipients \in RecipientLists(MaxRecipients)
    /\ form \in [name : {<<"J", "o">>}, email : {SenderEmail}, postcode : {<<>>},
                 note : {<<>>, <<"A", "c", "t">>}]
    /\ out = NoOut
    /\ page = NoPage /\ srv = NoSrv /\ reqs = <<>>

SpecLink == InitLink /\ [][Next]_vars

(***************************************************************************)
(* Length check: bodies whose mailto length runs across both thresholds.   *)
(***************************************************************************)
MinFill == 1765
MaxFill == 1975

Fill(n) == [i \in 1..n |-> "a"]

InitLength ==
    /\ cfg \in [subject : {Subject}, body : {TokName \o Fill(n) : n \in MinFill..MaxFill}]
    /\ recipients = <<RcptA, RcptB>>
    /\ form \in [name : {<<"J", "o">>}, email : {SenderEmail}, postcode : {<<>>},
                 note : {<<>>}]
    /\ out = NoOut
    /\ page = NoPage /\ srv = NoSrv /\ reqs = <<>>

NextLength ==
    \/ \E i \in DOMAIN recipients : CheckRecipient(i)
    \/ \E i \in DOMAIN recipients : OpenMailtoLink(i)

SpecLength == InitLength /\ [][NextLength]_vars

(***************************************************************************)
(* Printable documents: letters of up to MaxLines lines to few recipients, *)
(* and label sheets for up to MaxLabels recipients.                        *)
(***************************************************************************)
MaxLines == 26
MaxLabels == 44

Numeral(n) ==
    LET d == <<"0", "1", "2", "3", "4", "5", "6", "7", "8", "9">>
    IN  IF n < 10 THEN <<d[n + 1]>> ELSE <<d[(n \div 10) + 1], d[(n % 10) + 1]>>

Rcpt(i) == [name |-> <<"R">> \o Numeral(i), email |-> Numeral(i) \o <<"@", "x", ".", "i", "o">>]

\* A template of k lines
LetterTemplate(k) ==
    TokName \o <<" ">> \o TokPostcode \o [i \in 1..(2 * (k - 1)) |-> IF i % 2 = 1 THEN LF ELSE "a"]

InitPdf ==
    /\ \E n \in 0..MaxLabels, k \in 1..MaxLines :
          /\ n <= MaxRecipients \/ k = 1
          /\ recipients = [i \in 1..n |-> Rcpt(i)]
          /\ cfg = [subject |-> Subject, body |-> LetterTemplate(k)]
    /\ form \in [name : {<<>>, <<"J", "o">>}, email : {SenderEmail},
                 postcode : {<<>>, <<"B", "T", "1">>}, note : {<<>>, <<"A", "c", "t">>, <<" ">>}]
    /\ out = NoOut
    /\ page = NoPage /\ srv = NoSrv /\ reqs = <<>>

NextPdf ==
    \/ handleGenerateLetterPDF
    \/ handleGenerateAddressLabelsPDF

SpecPdf == InitPdf /\ [][NextPdf]_vars

(***************************************************************************)
(* The campaign page: share dialog, per-recipient send, submission request *)
(***************************************************************************)
\* Variant: the schema without min(1) on the name.
emailSubmissionRequestSchema_NameOptional(f) == zodEmail(f.email)

\* emailSubmissionRequestSchema: name min(1), email, optional postcode and note
emailSubmissionRequestSchema(f) == Len(f.name) >= 1 /\ zodEmail(f.email)

\* apiRequest rejects when the response is not ok
apiRequestOk(code) == code >= 200 /\ code <= 299

NoSeen == [exists |-> FALSE, isPublic |-> FALSE, isActive |-> FALSE]

IsPageReq(r) == r.origin = "page"
PageReqs == SelectSeq(reqs, IsPageReq)

\* submitEmailMutation.isPending: the latest mutation has not settled
isPending == PageReqs # <<>> /\ PageReqs[Len(PageReqs)].stage # "settled"

\* Variant: the request is issued twice.
mutate_Twice(rs, cid, data) ==
    LET r == [origin |-> "page", send |-> Len(SelectSeq(rs, IsPageReq)) + 1,
              campaignId |-> cid, data |-> data, stage |-> "sent", code |-> 0,
              rows |-> 0, seen |-> NoSeen]
    IN  rs \o <<r, r>>

\* submitEmailMutation.mutate(formData): one POST /api/campaigns/:id/submit
mutate(rs, cid, data) ==
    Append(rs, [origin |-> "page", send |-> Len(SelectSeq(rs, IsPageReq)) + 1,
                campaignId |-> cid, data |-> data, stage |-> "sent", code |-> 0,
                rows |-> 0, seen |-> NoSeen])

\* recipients.filter(r => checkRecipientEmailLength(r).isCritical)
criticalRecipients(rs) ==
    SelectSeq(rs, LAMBDA r : checkRecipientEmailLength(cfg, form).isCritical)

\* Variant: handleSendEmails without the check of campaign.isActive.
SendRefusal_NoActiveCheck(p) ==
    IF criticalRecipients(p.recipients) # <<>> THEN "too-long" ELSE "none"

\* The two early returns of handleSendEmails
SendRefusal(p) ==
    IF ~p.campaign.isActive THEN "inactive"
    ELSE IF criticalRecipients(p.recipients) # <<>> THEN "too-long"
    ELSE "none"

\* handleSendEmails(formData), run on the page state p
handleSendEmails(p, formData) ==
    LET refusal == SendRefusal(p)
    IN  IF refusal = "inactive"
        THEN page' = [p EXCEPT !.toast = CampaignInactiveToast] /\ UNCHANGED reqs
        ELSE IF refusal = "too-long"
        THEN page' = [p EXCEPT !.toast = EmailTooLongToast] /\ UNCHANGED reqs
        ELSE /\ reqs' = mutate(reqs, p.campaign.id, formData)
             /\ page' = [p EXCEPT
                    !.sent = Append(@, [data |-> formData, isActive |-> p.campaign.isActive,
                                        recipients |-> p.recipients]),
                    !.timers = @ \cup {<<Len(p.sent) + 1, i>> : i \in DOMAIN p.recipients},
                    !.budget = @ - 1]

\* <form onSubmit={form.handleSubmit(handleFormSubmit)}> behind the submit
\* button, which is disabled while the mutation is pending, the campaign is
\* inactive or the form is invalid.  The open share dialog covers the form.
Submit ==
    /\ page.campaign.id # 0
    /\ page.budget > 0
    /\ ~page.showShareDialog
    /\ ~isPending
    /\ page.campaign.isActive
    /\ emailSubmissionRequestSchema(form)
    /\ IF ~page.hasShared /\ ~page.showShareDialog
       THEN page' = [page EXCEPT !.showShareDialog = TRUE] /\ UNCHANGED reqs
       ELSE handleSendEmails(page, form)
    /\ UNCHANGED <<cfg, recipients, form, out, srv>>

\* The "Skip & Send Emails" button of the share dialog
SkipAndSend ==
    /\ page.campaign.id # 0
    /\ page.budget > 0
    /\ page.showShareDialog
    /\ handleSendEmails([page EXCEPT !.showShareDialog = FALSE], form)
    /\ UNCHANGED <<cfg, recipients, form, out, srv>>

handleShare ==
    /\ page.campaign.id # 0
    /\ page.showShareDialog
    /\ page.shareTimers < MaxShareTimers
    /\ page' = [page EXCEPT !.hasShared = TRUE, !.shareTimers = @ + 1]
    /\ UNCHANGED <<cfg, recipients, form, out, srv, reqs>>

\* setTimeout(() => setShowShareDialog(false), 500) of handleShare
ShareDialogTimer ==
    /\ page.shareTimers > 0
    /\ page' = [page EXCEPT !.showShareDialog = FALSE, !.shareTimers = @ - 1]
    /\ UNCHANGED <<cfg, recipients, form, out, srv, reqs>>

\* <Dialog onOpenChange={setShowShareDialog}>: the dialog is dismissed
onOpenChange ==
    /\ page.showShareDialog
    /\ page' = [page EXCEPT !.showShareDialog = FALSE]
    /\ UNCHANGED <<cfg, recipients, form, out, srv, reqs>>

JoForm ==
    [name |-> <<"J", "o">>, email |-> SenderEmail, postcode |-> <<>>, note |-> <<>>]
PageForms == {EmptyForm, JoForm}

\* The sender types into the form, while the share dialog does not cover it
\* and no link of a send is about to open
EditForm ==
    /\ page.campaign.id # 0
    /\ ~page.showShareDialog
    /\ page.timers = {}
    /\ \E f \in PageForms : f # form /\ form' = f
    /\ UNCHANGED <<cfg, recipients, out, page, srv, reqs>>

\* The timer callback of handleSendEmails for recipient i of send s:
\* window.open(generateMailtoLink(recipient)), which reads form.getValues()
\* when it runs.  The timers of one send are due index * 500 ms apart.
OpenRecipientLink(s, i) ==
    /\ <<s, i>> \in page.timers
    /\ \A j \in 1..(i - 1) : <<s, j>> \notin page.timers
    /\ page' = [page EXCEPT
           !.timers = @ \ {<<s, i>>},
           !.opened = Append(@, [send |-> s, to |-> i,
                                 url |-> generateMailtoLink(cfg, page.sent[s].recipients[i], form),
                                 body |-> generateEmailBody(cfg.body, form)])]
    /\ UNCHANGED <<cfg, recipients, form, out, srv, reqs>>

\* onSuccess / onError of submitEmailMutation.  The zero-delay timer of the
\* send is due before the response of its request can arrive.
MutationSettled(i) ==
    /\ reqs[i].origin = "page"
    /\ reqs[i].stage = "responded"
    /\ <<reqs[i].send, 1>> \notin page.timers
    /\ reqs' = [reqs EXCEPT ![i].stage = "settled"]
    /\ IF apiRequestOk(reqs[i].code)
       THEN /\ page' = [page EXCEPT !.toast = EmailSentToast]
            /\ form' = page.defaults
       ELSE /\ page' = [page EXCEPT !.toast = ErrorToast]
            /\ form' = form
    /\ UNCHANGED <<cfg, recipients, out, srv>>

\* The request never reaches the server: fetch rejects, onError runs
NetworkError(i) ==
    /\ reqs[i].origin = "page"
    /\ reqs[i].stage = "sent"
    /\ <<reqs[i].send, 1>> \notin page.timers
    /\ reqs' = [reqs EXCEPT ![i].stage = "settled"]
    /\ page' = [page EXCEPT !.toast = ErrorToast]
    /\ UNCHANGED <<cfg, recipients, form, out, srv>>

\* app.get('/api/campaigns/:id/recipients'): 404 for a missing or private
\* campaign, for which the query of the page returns []
GetRecipients(s, id) ==
    IF s.campaigns[id].exists /\ s.campaigns[id].isPublic
    THEN s.campaigns[id].recipients
    ELSE <<>>

\* useQuery(["/api/campaigns", campaign?.id, "recipients"]) resolves
FetchRecipients ==
    /\ page.campaign.id # 0
    /\ page.recipients # GetRecipients(srv, page.campaign.id)
    /\ page' = [page EXCEPT !.recipients = GetRecipients(srv, page.campaign.id)]
    /\ UNCHANGED <<cfg, recipients, form, out, srv, reqs>>

\* useQuery(["/api/campaigns/slug", slug]) is fetched again; on an error the
\* page renders the not-found screen
FetchCampaign ==
    /\ page.campaign.id # 0
    /\ LET c == srv.campaigns[page.campaign.id]
       IN  page' = IF c.exists /\ c.isPublic
                   THEN [page EXCEPT !.campaign.isActive = c.isActive]
                   ELSE [page EXCEPT !.campaign = [id |-> 0, isActive |-> FALSE]]
    /\ page' # page
    /\ UNCHANGED <<cfg, recipients, form, out, srv, reqs>>

(***************************************************************************)
(* The campaign store and POST /api/campaigns/:id/submit                   *)
(***************************************************************************)
\* Variant: the schema without the minimum on recipients.
createCampaignSchema_NoMinimum(data) == Len(data.recipients) >= 0

\* createCampaignSchema: recipients min(1)
createCampaignSchema(data) == Len(data.recipients) >= 1

\* storage.createCampaign: one transaction inserts the campaign and its
\* recipients; a unique violation rolls both back, the serial is consumed
createCampaign(s, data) ==
    IF Len(data.recipients) > 0 /\ ~unique_recipient_per_campaign(data.recipients)
    THEN [s EXCEPT !.nextId = @ + 1]
    ELSE [s EXCEPT !.nextId = @ + 1,
                   !.campaigns[s.nextId] =
                       [exists |-> TRUE, isPublic |-> data.isPublic, isActive |-> TRUE,
                        recipients |-> data.recipients, userId |-> data.userId]]

CampaignInputs ==
    [isPublic : BOOLEAN, recipients : {<<>>, <<RcptA>>, <<RcptA, RcptB>>, <<RcptA, RcptA>>},
     userId : {"ann"}]

\* app.post('/api/campaigns', ...)
PostCampaign(data) ==
    /\ srv.nextId <= MaxCampaigns
    /\ srv' = IF createCampaignSchema(data) THEN createCampaign(srv, data) ELSE srv
    /\ UNCHANGED <<cfg, recipients, form, out, page, reqs>>

\* storage.updateCampaign(id, userId, updates)
updateCampaign(id, field, value) ==
    /\ srv.campaigns[id].exists
    /\ srv' = IF field = "isActive"
              THEN [srv EXCEPT !.campaigns[id].isActive = value]
              ELSE [srv EXCEPT !.campaigns[id].isPublic = value]
    /\ srv' # srv
    /\ UNCHANGED <<cfg, recipients, form, out, page, reqs>>

\* storage.deleteCampaign(id, userId): recipients and submissions cascade
deleteCampaign(id) ==
    /\ srv.campaigns[id].exists
    /\ srv' = [srv EXCEPT !.campaigns[id] = NoCampaign,
                          !.submissions = {row \in @ : row.campaignId # id}]
    /\ UNCHANGED <<cfg, recipients, form, out, page, reqs>>

InvalidEmailForm ==
    [name |-> <<"J", "o">>, email |-> <<"j">>, postcode |-> <<>>, note |-> <<>>]
NoNameForm ==
    [name |-> <<>>, email |-> SenderEmail, postcode |-> <<>>, note |-> <<>>]
DirectForms == {JoForm, NoNameForm, InvalidEmailForm}

IsDirectReq(r) == r.origin = "direct"

\* Another client posts to the public endpoint
DirectPost(cid, data) ==
    /\ Len(SelectSeq(reqs, IsDirectReq)) < MaxDirect
    /\ reqs' = Append(reqs, [origin |-> "direct", send |-> 0, campaignId |-> cid,
                             data |-> data, stage |-> "sent", code |-> 0, rows |-> 0,
                             seen |-> NoSeen])
    /\ UNCHANGED <<cfg, recipients, form, out, page, srv>>

\* app.post('/api/campaigns/:id/submit'), up to the call of
\* storage.createEmailSubmission: getCampaignById, the 404 and 403 returns
\* and emailSubmissionRequestSchema.parse
SubmitLookup(i) ==
    /\ reqs[i].stage = "sent"
    /\ LET c == srv.campaigns[reqs[i].campaignId]
           seen == [exists |-> c.exists, isPublic |-> c.isPublic, isActive |-> c.isActive]
       IN  reqs' =
             IF ~c.exists
             THEN [reqs EXCEPT ![i].stage = "responded", ![i].code = 404, ![i].seen = seen]
             ELSE IF ~c.isPublic \/ ~c.isActive
             THEN [reqs EXCEPT ![i].stage = "responded", ![i].code = 403, ![i].seen = seen]
             ELSE IF ~emailSubmissionRequestSchema(reqs[i].data)
             THEN [reqs EXCEPT ![i].stage = "responded", ![i].code = 400, ![i].seen = seen]
             ELSE [reqs EXCEPT ![i].stage = "eligible", ![i].seen = seen]
    /\ UNCHANGED <<cfg, recipients, form, out, page, srv>>

\* storage.createEmailSubmission and the 201 response; the insert violates
\* the foreign key when the campaign has been deleted meanwhile (500).  The
\* row keeps the flags the campaign has when the row is created.
SubmitInsert(i) ==
    /\ reqs[i].stage = "eligible"
    /\ LET c == srv.campaigns[reqs[i].campaignId]
       IN  IF ~c.exists
           THEN /\ reqs' = [reqs EXCEPT ![i].stage = "responded", ![i].code = 500]
                /\ srv' = srv
           ELSE /\ reqs' = [reqs EXCEPT ![i].stage = "responded", ![i].code = 201,
                                        ![i].rows = @ + 1]
                /\ srv' = [srv EXCEPT !.submissions = @ \cup
                              {[req |-> i, campaignId |-> reqs[i].campaignId,
                                senderName |-> reqs[i].data.name,
                                senderEmail |-> reqs[i].data.email,
                                isPublic |-> c.isPublic, isActive |-> c.isActive]}]
    /\ UNCHANGED <<cfg, recipients, form, out, page>>

(***************************************************************************)
(* The page of a public campaign with two recipients                       *)
(***************************************************************************)
PageTemplate == <<"A", LF, LF>> \o TokName

PageSrv(active) ==
    [NoSrv EXCEPT !.campaigns[1] = [exists |-> TRUE, isPublic |-> TRUE, isActive |-> active,
                                    recipients |-> <<RcptA, RcptB>>],
                  !.nextId = MaxCampaigns + 1]

InitPage ==
    /\ cfg \in [subject : {Subject}, body : {PageTemplate}]
    /\ recipients = <<RcptA, RcptB>>
    /\ form \in {EmptyForm, JoForm}
    /\ out = NoOut
    /\ reqs = <<>>
    /\ \E active \in BOOLEAN :
          /\ srv = PageSrv(active)
          /\ page = [NoPage EXCEPT !.campaign = [id |-> 1, isActive |-> active],
                                   !.defaults = form, !.budget = MaxSends]

NextPage ==
    \/ Submit
    \/ SkipAndSend
    \/ handleShare
    \/ ShareDialogTimer
    \/ onOpenChange
    \/ EditForm
    \/ FetchRecipients
    \/ FetchCampaign
    \/ \E s \in 1..MaxSends, i \in 1..MaxRecipients : OpenRecipientLink(s, i)
    \/ \E i \in DOMAIN reqs : MutationSettled(i)
    \/ \E i \in DOMAIN reqs : NetworkError(i)
    \/ \E i \in DOMAIN reqs : SubmitLookup(i)
    \/ \E i \in DOMAIN reqs : SubmitInsert(i)
    \/ \E id \in 1..MaxCampaigns, value \in BOOLEAN : updateCampaign(id, "isActive", value)

SpecPage == InitPage /\ [][NextPage]_vars

(***************************************************************************)
(* The page of a campaign whose body brings the mailto length next to the  *)
(* critical threshold: with LongPass the check passes for the name typed   *)
(* and not for the form's default values, with LongCritical it fails.      *)
(***************************************************************************)
LongPass == 1965
LongCritical == 1975
LongSends == 1

InitLong ==
    /\ cfg \in [subject : {Subject}, body : {TokName \o Fill(n) : n \in {LongPass, LongCritical}}]
    /\ recipients = <<RcptA, RcptB>>
    /\ form = JoForm
    /\ out = NoOut
    /\ reqs = <<>>
    /\ srv = PageSrv(TRUE)
    /\ page = [NoPage EXCEPT !.campaign = [id |-> 1, isActive |-> TRUE],
                             !.defaults = EmptyForm, !.budget = LongSends]

SpecLong == InitLong /\ [][NextPage]_vars

(***************************************************************************)
(* The campaign store under create, update, delete and direct requests     *)
(***************************************************************************)
InitStore ==
    /\ cfg \in [subject : {Subject}, body : {PageTemplate}]
    /\ recipients = <<RcptA, RcptB>>
    /\ form = EmptyForm
    /\ out = NoOut
    /\ page = NoPage
    /\ srv = NoSrv
    /\ reqs = <<>>

NextStore ==
    \/ \E data \in CampaignInputs : PostCampaign(data)
    \/ \E id \in 1..MaxCampaigns, field \in {"isActive", "isPublic"}, value \in BOOLEAN :
          updateCampaign(id, field, value)
    \/ \E id \in 1..MaxCampaigns : deleteCampaign(id)
    \/ \E cid \in 1..MaxCampaigns, data \in DirectForms : DirectPost(cid, data)
    \/ \E i \in DOMAIN reqs : SubmitLookup(i)
    \/ \E i \in DOMAIN reqs : SubmitInsert(i)

SpecStore == InitStore /\ [][NextStore]_vars

(***************************************************************************)
(* The read routes of the campaign store (server/routes.ts): the list of   *)
(* campaigns, a campaign by slug and the recipients of a campaign, asked   *)
(* by any requester while campaigns are updated and deleted.  A campaign's *)
(* slug is unique: the model looks a campaign up by its id on both routes. *)
(***************************************************************************)
MaxReads == 2

IsReadReq(r) == r.origin = "read"

\* Variant: every signed-in requester has access.
hasAccess_AnySession(campaign, requester) == campaign.isPublic \/ requester # Anonymous

\* let hasAccess = campaign.isPublic; if (!hasAccess && req.isAuthenticated()
\* && req.user) hasAccess = isAdmin || campaign.userId === userId
hasAccess(campaign, requester) ==
    \/ campaign.isPublic
    \/ requester # Anonymous /\ (checkUserIsAdmin(requester) \/ campaign.userId = requester)

\* What a response shows of campaign id
Disclosed(s, id) ==
    [id |-> id, isPublic |-> s.campaigns[id].isPublic, userId |-> s.campaigns[id].userId]

\* storage.getCampaigns(filters)
getCampaigns(s, publicOnly) ==
    {Disclosed(s, id) : id \in {k \in 1..MaxCampaigns :
                                  /\ s.campaigns[k].exists
                                  /\ publicOnly => s.campaigns[k].isPublic}}

\* A client sends GET /api/campaigns, /api/campaigns/slug/:slug or
\* /api/campaigns/:id/recipients
Get(route, requester, cid) ==
    /\ Len(SelectSeq(reqs, IsReadReq)) < MaxReads
    /\ route = "list" => cid = 1
    /\ reqs' = Append(reqs, [origin |-> "read", route |-> route, requester |-> requester,
                             campaignId |-> cid, stage |-> "sent", code |-> 0,
                             seen |-> NoCampaign, campaigns |-> {}, recipients |-> <<>>])
    /\ UNCHANGED <<cfg, recipients, form, out, page, srv>>

\* app.get('/api/campaigns')
GetCampaigns(i) ==
    /\ reqs[i].origin = "read" /\ reqs[i].route = "list" /\ reqs[i].stage = "sent"
    /\ LET isAdmin == reqs[i].requester # Anonymous /\ checkUserIsAdmin(reqs[i].requester)
       IN  reqs' = [reqs EXCEPT ![i].stage = "responded", ![i].code = 200,
                                ![i].campaigns = getCampaigns(srv, ~isAdmin)]
    /\ UNCHANGED <<cfg, recipients, form, out, page, srv>>

\* app.get('/api/campaigns/slug/:slug'), and app.get('/api/campaigns/:id/recipients')
\* up to its call of storage.getCampaignRecipients
GetCampaign(i) ==
    /\ reqs[i].origin = "read" /\ reqs[i].route \in {"slug", "recipients"}
    /\ reqs[i].stage = "sent"
    /\ LET campaign == srv.campaigns[reqs[i].campaignId]
       IN  reqs' =
             IF ~campaign.exists \/ ~hasAccess(campaign, reqs[i].requester)
             THEN [reqs EXCEPT ![i].stage = "responded", ![i].code = 404,
                               ![i].seen = campaign]
             ELSE IF reqs[i].route = "slug"
             THEN [reqs EXCEPT ![i].stage = "responded", ![i].code = 200,
                               ![i].seen = campaign,
                               ![i].campaigns = {Disclosed(srv, reqs[i].campaignId)}]
             ELSE [reqs EXCEPT ![i].stage = "allowed", ![i].seen = campaign]
    /\ UNCHANGED <<cfg, recipients, form, out, page, srv>>

\* storage.getCampaignRecipients(campaignId) and res.json(recipients)
GetCampaignRecipients(i) ==
    /\ reqs[i].origin = "read" /\ reqs[i].stage = "allowed"
    /\ reqs' = [reqs EXCEPT ![i].stage = "responded", ![i].code = 200,
                            ![i].recipients = srv.campaigns[reqs[i].campaignId].recipients]
    /\ UNCHANGED <<cfg, recipients, form, out, page, srv>>

InitRead ==
    /\ cfg = [subject |-> Subject, body |-> PageTemplate]
    /\ recipients = <<RcptA, RcptB>>
    /\ form = EmptyForm
    /\ out = NoOut
    /\ page = NoPage
    /\ \E c \in [1..MaxCampaigns -> [isPublic : BOOLEAN, userId : {"ann", "bob"}]] :
          srv = [NoSrv EXCEPT
                   !.nextId = MaxCampaigns + 1,
                   !.campaigns = [id \in 1..MaxCampaigns |->
                                    [exists |-> TRUE, isPublic |-> c[id].isPublic,
                                     isActive |-> TRUE, recipients |-> <<RcptA, RcptB>>,
                                     userId |-> c[id].userId]]]
    /\ reqs = <<>>

NextRead ==
    \/ \E route \in {"list", "slug", "recipients"}, requester \in Users \cup {Anonymous},
          cid \in 1..MaxCampaigns : Get(route, requester, cid)
    \/ \E i \in DOMAIN reqs : GetCampaigns(i)
    \/ \E i \in DOMAIN reqs : GetCampaign(i)
    \/ \E i \in DOMAIN reqs : GetCampaignRecipients(i)
    \/ \E id \in 1..MaxCampaigns, value \in BOOLEAN : updateCampaign(id, "isPublic", value)
    \/ \E id \in 1..MaxCampaigns : deleteCampaign(id)

SpecRead == InitRead /\ [][NextRead]_vars

(***************************************************************************)
(* POST /api/campaigns step by step (server/routes.ts, server/storage.ts): *)
(* storage.createCampaign runs its two inserts in one db.transaction.  The *)
(* rows a transaction has inserted are kept with the request until the     *)
(* transaction commits; a statement that throws rolls the transaction      *)
(* back.  The serial of campaigns.id is consumed by the insert whether or  *)
(* not the transaction commits.                                            *)
(***************************************************************************)
IsCreateReq(r) == r.origin = "create"

\* A signed-in client posts a campaign
PostCampaignRequest(data) ==
    /\ Len(SelectSeq(reqs, IsCreateReq)) < MaxCampaigns
    /\ reqs' = Append(reqs, [origin |-> "create", data |-> data, stage |-> "sent",
                             code |-> 0, id |-> 0, tx |-> NoCampaign])
    /\ UNCHANGED <<cfg, recipients, form, out, page, srv>>

\* Variant: the campaign row is inserted outside the transaction.
InsertedCampaigns_Direct(s, id, row) == [s.campaigns EXCEPT ![id] = row]

\* The campaigns table after tx.insert(campaigns) and before the commit, as
\* the other sessions read it
InsertedCampaigns(s, id, row) == s.campaigns

\* createCampaignSchema.parse, then tx.insert(campaigns).values(...).returning()
CreateInsertCampaign(i) ==
    /\ reqs[i].origin = "create" /\ reqs[i].stage = "sent"
    /\ IF ~createCampaignSchema(reqs[i].data)
       THEN /\ reqs' = [reqs EXCEPT ![i].stage = "responded", ![i].code = 400]
            /\ srv' = srv
       ELSE LET row == [exists |-> TRUE, isPublic |-> reqs[i].data.isPublic,
                        isActive |-> TRUE, recipients |-> <<>>,
                        userId |-> reqs[i].data.userId]
            IN  /\ reqs' = [reqs EXCEPT ![i].stage = "inserted", ![i].id = srv.nextId,
                                        ![i].tx = row]
                /\ srv' = [srv EXCEPT !.nextId = @ + 1,
                                      !.campaigns = InsertedCampaigns(srv, srv.nextId, row)]
    /\ UNCHANGED <<cfg, recipients, form, out, page>>

\* tx.insert(recipients).values(recipientValues); the unique constraint
\* throws, the transaction rolls back and the route answers 409
CreateInsertRecipients(i) ==
    /\ reqs[i].origin = "create" /\ reqs[i].stage = "inserted"
    /\ IF Len(reqs[i].data.recipients) > 0
          /\ ~unique_recipient_per_campaign(reqs[i].data.recipients)
       THEN /\ reqs' = [reqs EXCEPT ![i].stage = "responded", ![i].code = 409,
                                    ![i].tx = NoCampaign]
            /\ srv' = [srv EXCEPT !.campaigns[reqs[i].id] = NoCampaign]
       ELSE /\ reqs' = [reqs EXCEPT ![i].stage = "filled",
                                    ![i].tx.recipients = reqs[i].data.recipients]
            /\ srv' = srv
    /\ UNCHANGED <<cfg, recipients, form, out, page>>

\* The transaction commits and the route answers 201
CreateCommit(i) ==
    /\ reqs[i].origin = "create" /\ reqs[i].stage = "filled"
    /\ reqs' = [reqs EXCEPT ![i].stage = "responded", ![i].code = 201]
    /\ srv' = [srv EXCEPT !.campaigns[reqs[i].id] = reqs[i].tx]
    /\ UNCHANGED <<cfg, recipients, form, out, page>>

InitCreate == InitStore

NextCreate ==
    \/ \E data \in CampaignInputs : PostCampaignRequest(data)
    \/ \E i \in DOMAIN reqs : CreateInsertCampaign(i)
    \/ \E i \in DOMAIN reqs : CreateInsertRecipients(i)
    \/ \E i \in DOMAIN reqs : CreateCommit(i)
    \/ \E route \in {"list", "slug", "recipients"}, cid \in 1..MaxCampaigns :
          Get(route, Anonymous, cid)
    \/ \E i \in DOMAIN reqs : GetCampaigns(i)
    \/ \E i \in DOMAIN reqs : GetCampaign(i)
    \/ \E i \in DOMAIN reqs : GetCampaignRecipients(i)

SpecCreate == InitCreate /\ [][NextCreate]_vars

(***************************************************************************)
(* POST /track and /track-email of the legacy server (unnamed/part_007).   *)
(* srv.db tells whether require('./server/db.js') has succeeded;           *)
(* srv.emailSends and srv.campaignStats are the two tables, and            *)
(* srv.analyticsFile the events of analytics.json.  A database statement   *)
(* either succeeds or throws.  The file is taken to be readable and        *)
(* writable.                                                               *)
(***************************************************************************)
MaxTracks == 3

IsTrackReq(r) == r.origin = "track"

\* A client posts its send to /track
TrackRequest(payload) ==
    /\ Len(SelectSeq(reqs, IsTrackReq)) < MaxTracks
    /\ reqs' = Append(reqs, [origin |-> "track", payload |-> payload, stage |-> "sent",
                             message |-> ""])
    /\ UNCHANGED <<cfg, recipients, form, out, page, srv>>

\* if (db && emailSends && campaignStats): await db.insert(emailSends), which
\* throws into the catch that falls through to the file
TrackInsertSend(i, ok) ==
    /\ reqs[i].origin = "track" /\ reqs[i].stage = "sent"
    /\ IF srv.db /\ ok
       THEN /\ srv' = [srv EXCEPT !.emailSends = @ \cup {[req |-> i,
                                      name |-> reqs[i].payload.name,
                                      email |-> reqs[i].payload.email]}]
            /\ reqs' = [reqs EXCEPT ![i].stage = "inserted"]
       ELSE /\ srv' = srv
            /\ reqs' = [reqs EXCEPT ![i].stage = "fallback"]
    /\ UNCHANGED <<cfg, recipients, form, out, page>>

\* await db.insert(campaignStats)...onConflictDoUpdate(...) and the answer
\* 'tracked (db)', or the catch that falls through to the file
TrackUpsertStats(i, ok) ==
    /\ reqs[i].origin = "track" /\ reqs[i].stage = "inserted"
    /\ IF ok
       THEN /\ srv' = [srv EXCEPT !.campaignStats = @ + 1]
            /\ reqs' = [reqs EXCEPT ![i].stage = "responded", ![i].message = "tracked (db)"]
       ELSE /\ srv' = srv
            /\ reqs' = [reqs EXCEPT ![i].stage = "fallback"]
    /\ UNCHANGED <<cfg, recipients, form, out, page>>

\* readAnalyticsFile(); store.events.push(...); writeAnalyticsFile(store)
TrackFile(i) ==
    /\ reqs[i].origin = "track" /\ reqs[i].stage = "fallback"
    /\ srv' = [srv EXCEPT !.analyticsFile = Append(@, [req |-> i,
                                                       name |-> reqs[i].payload.name,
                                                       email |-> reqs[i].payload.email])]
    /\ reqs' = [reqs EXCEPT ![i].stage = "responded", ![i].message = "tracked (file)"]
    /\ UNCHANGED <<cfg, recipients, form, out, page>>

InitTrack ==
    /\ cfg = [subject |-> Subject, body |-> PageTemplate]
    /\ recipients = <<RcptA, RcptB>>
    /\ form = EmptyForm
    /\ out = NoOut
    /\ page = NoPage
    /\ \E available \in BOOLEAN : srv = [NoSrv EXCEPT !.db = available]
    /\ reqs = <<>>

NextTrack ==
    \/ \E payload \in {JoForm, EmptyForm} : TrackRequest(payload)
    \/ \E i \in DOMAIN reqs, ok \in BOOLEAN : TrackInsertSend(i, ok)
    \/ \E i \in DOMAIN reqs, ok \in BOOLEAN : TrackUpsertStats(i, ok)
    \/ \E i \in DOMAIN reqs : TrackFile(i)

SpecTrack == InitTrack /\ [][NextTrack]_vars

(***************************************************************************)
(* The admin pages: the recipient list as one recipient per textarea line  *)
(***************************************************************************)
LineTerminators == {LF, CR}

\* .+@.+ : an "@" with a character on each side, no line terminator anywhere
AddrShape(s) ==
    /\ \A i \in DOMAIN s : s[i] \notin LineTerminators
    /\ \E i \in 2..(Len(s) - 1) : s[i] = "@"

NoMatch == [matched |-> FALSE, name |-> <<>>, email |-> <<>>]

\* trimmed.match(/^(.*?)\s*<(.+@.+)>$/): the lazy first group is the shortest
\* prefix free of line terminators after which white space, "<", the second
\* group and the closing ">" take the line to its end.
RecipientMatch(trimmed) ==
    LET n == Len(trimmed)
        AfterSpace(p) == SetMin({j \in (p + 1)..(n + 1) :
                              j = n + 1 \/ trimmed[j] \notin WhiteSpace})
        P == {p \in 0..n :
                /\ \A i \in 1..p : trimmed[i] \notin LineTerminators
                /\ AfterSpace(p) < n
                /\ trimmed[AfterSpace(p)] = "<"
                /\ trimmed[n] = ">"
                /\ AddrShape(SubSeq(trimmed, AfterSpace(p) + 1, n - 1))}
    IN  IF P = {} THEN NoMatch
        ELSE LET p == SetMin(P)
             IN  [matched |-> TRUE, name |-> SubSeq(trimmed, 1, p),
                  email |-> SubSeq(trimmed, AfterSpace(p) + 1, n - 1)]

\* value.split(/\r?\n/)
RECURSIVE DropCR(_)
DropCR(parts) ==
    IF Len(parts) <= 1 THEN parts
    ELSE LET h == Head(parts)
         IN  <<IF h # <<>> /\ h[Len(h)] = CR THEN SubSeq(h, 1, Len(h) - 1) ELSE h>>
                 \o DropCR(Tail(parts))

SplitLines(value) == DropCR(Split(value, <<LF>>))

\* One line of the legacy page: the entries it contributes (none or one)
LegacyEntry_NoValidation(line) ==
    LET trimmed == Trim(line)
        match == RecipientMatch(trimmed)
    IN  IF trimmed = <<>> THEN <<>>
        ELSE IF match.matched
        THEN <<[name |-> Trim(match.name), email |-> Trim(match.email)]>>
        ELSE <<[name |-> <<>>, email |-> trimmed]>>

LegacyEntry(line) ==
    LET trimmed == Trim(line)
        match == RecipientMatch(trimmed)
    IN  IF trimmed = <<>> THEN <<>>
        ELSE IF match.matched
        THEN IF validateEmail(Trim(match.email))
             THEN <<[name |-> Trim(match.name), email |-> Trim(match.email)]>>
             ELSE <<>>
        ELSE IF validateEmail(trimmed)
        THEN <<[name |-> <<>>, email |-> trimmed]>>
        ELSE <<>>

RECURSIVE LegacyEntries(_)
LegacyEntries(lines) ==
    IF lines = <<>> THEN <<>>
    ELSE LegacyEntry(Head(lines)) \o LegacyEntries(Tail(lines))

\* script.js: the recipients the legacy admin page reads from its textarea
parseRecipients(value) == LegacyEntries(SplitLines(value))

\* script.js: the textarea the legacy admin page shows for a stored list
formatRecipients(rs) ==
    Join([i \in DOMAIN rs |->
             IF rs[i].name # <<>>
             THEN rs[i].name \o <<" ", "<">> \o rs[i].email \o <<">">>
             ELSE rs[i].email], <<LF>>)

\* AdminForm: one kept line
AdminFormEntry(line) ==
    LET match == RecipientMatch(Trim(line))
    IN  IF match.matched
        THEN [name |-> Trim(match.name), email |-> Trim(match.email)]
        ELSE [name |-> <<>>, email |-> Trim(line)]

\* AdminForm: split, drop the blank lines, map every other line to an entry
AdminFormParse(value) ==
    LET lines == SelectSeq(SplitLines(value), LAMBDA line : Trim(line) # <<>>)
    IN  [i \in DOMAIN lines |-> AdminFormEntry(lines[i])]

\* AdminForm: the default value of its recipients field
AdminFormFormat(rs) ==
    Join([i \in DOMAIN rs |->
             rs[i].name \o <<" ", "<">> \o rs[i].email \o <<">">>], <<LF>>)

\* The fields of an admin page before the configuration has been loaded
BlankAdminForm == [title |-> <<>>, subject |-> <<>>, body |-> <<>>, recipients |-> <<>>]

IsAdminForm(f) == DOMAIN f = DOMAIN BlankAdminForm

AdminOut(site, status) == [NoOut EXCEPT !.site = site, !.status = status]

\* script.js initAdminPage: the fields are filled from the loaded configuration
LegacyAdminLoad ==
    /\ IsAdminForm(form)
    /\ form' = [title |-> CampaignTitle, subject |-> cfg.subject, body |-> cfg.body,
                recipients |-> formatRecipients(recipients)]
    /\ out' = AdminOut("legacy", "loaded")
    /\ UNCHANGED <<cfg, recipients, page, srv, reqs>>

\* AdminForm: defaultValues of useForm
AdminFormLoad ==
    /\ IsAdminForm(form)
    /\ form' = [title |-> CampaignTitle, subject |-> cfg.subject, body |-> cfg.body,
                recipients |-> AdminFormFormat(recipients)]
    /\ out' = AdminOut("react", "loaded")
    /\ UNCHANGED <<cfg, recipients, page, srv, reqs>>

\* The administrator types into the recipients textarea of either page
EditRecipients(value) ==
    /\ IsAdminForm(form)
    /\ form.recipients # value
    /\ form' = [form EXCEPT !.recipients = value]
    /\ out' = AdminOut(out.site, "edited")
    /\ UNCHANGED <<cfg, recipients, page, srv, reqs>>

\* script.js: the submit handler of the legacy admin form, with credentials
\* the server accepts; POST /admin/update writes the body it is sent.
LegacyAdminSubmit ==
    /\ IsAdminForm(form)
    /\ LET parsed == parseRecipients(form.recipients)
       IN  IF form.title = <<>> \/ form.subject = <<>> \/ form.body = <<>>
           THEN /\ out' = AdminOut("legacy", "required")
                /\ UNCHANGED <<cfg, recipients>>
           ELSE IF Len(parsed) = 0
           THEN /\ out' = AdminOut("legacy", "norecipient")
                /\ UNCHANGED <<cfg, recipients>>
           ELSE /\ cfg' = [cfg EXCEPT !.subject = form.subject, !.body = form.body]
                /\ recipients' = parsed
                /\ out' = AdminOut("legacy", "saved")
    /\ UNCHANGED <<form, page, srv, reqs>>

\* AdminForm: adminConfigFormSchema, then configMutation and the answer of
\* POST /api/admin/config for an administrator's session
AdminFormSubmit ==
    /\ IsAdminForm(form)
    /\ LET parsed == AdminFormParse(form.recipients)
           data == [subject |-> form.subject, body |-> form.body]
       IN  IF form.title = <<>> \/ form.subject = <<>> \/ form.body = <<>>
              \/ form.recipients = <<>>
           THEN /\ out' = AdminOut("react", "required")
                /\ UNCHANGED <<cfg, recipients>>
           ELSE IF ~campaignConfigSchema(data, parsed)
           THEN /\ out' = AdminOut("react", "400")
                /\ UNCHANGED <<cfg, recipients>>
           ELSE /\ cfg' = [cfg EXCEPT !.subject = form.subject, !.body = form.body]
                /\ recipients' = parsed
                /\ out' = AdminOut("react", "saved")
    /\ UNCHANGED <<form, page, srv, reqs>>

\* Lines an administrator may type, and the texts made of them
MaxAdminLines == 2

AdminLines ==
    {<<"A", " ", "<", "a", "@", "x", ".", "i", "o", ">">>,
     <<"b", "@", "x", ".", "i", "o">>,
     <<"j", "u", "n", "k">>,
     <<>>,
     <<" ", "B", " ", " ", "<", "b", "@", "x", ".", "i", "o", ">", " ">>,
     <<"A", " ", "<", "j", "u", "n", "k", ">">>,
     <<"A", " ", "<", "b", " ", "c", "@", "x", ".", "i", "o", ">">>,
     <<"A", CR, "B", " ", "<", "a", "@", "x", ".", "i", "o", ">">>}

AdminTexts ==
    {Join(ls, sep) : ls \in UNION {[1..k -> AdminLines] : k \in 1..MaxAdminLines},
                     sep \in {<<LF>>, <<CR, LF>>}}

\* Recipients a stored configuration may hold: POST /admin/update of the
\* legacy server writes any list it is sent
StoredEntries ==
    {[name |-> <<"A">>, email |-> <<"a", "@", "x", ".", "i", "o">>],
     [name |-> <<>>, email |-> <<"b", "@", "x", ".", "i", "o">>],
     [name |-> <<" ", "A">>, email |-> <<"a", "@", "x", ".", "i", "o">>],
     [name |-> <<>>, email |-> <<"<", "b", "@", "x", ".", "i", "o", ">">>]}

InitAdmin ==
    /\ cfg = [subject |-> Subject, body |-> PageTemplate]
    /\ recipients \in UNION {[1..k -> StoredEntries] : k \in 0..MaxAdminLines}
    /\ form = BlankAdminForm
    /\ out = NoOut
    /\ page = NoPage /\ srv = NoSrv /\ reqs = <<>>

NextAdmin ==
    \/ LegacyAdminLoad
    \/ AdminFormLoad
    \/ \E value \in AdminTexts : EditRecipients(value)
    \/ LegacyAdminSubmit
    \/ AdminFormSubmit

SpecAdmin == InitAdmin /\ [][NextAdmin]_vars

(***************************************************************************)
(* Vocabulary of the properties                                            *)
(***************************************************************************)
HasToken(s) == Contains(s, TokName) \/ Contains(s, TokPostcode)

HasChar(s, cs) == \E i \in DOMAIN s : s[i] \in cs

\* The text of a template outside its {{name}} and {{postcode}} tokens, as
\* the sequence of segments a left-to-right scan leaves between the tokens.
RECURSIVE SegmentsFrom(_, _)
SegmentsFrom(t, from) ==
    LET n == NextMatch(t, TokName, from)
        p == NextMatch(t, TokPostcode, from)
        i == IF n = 0 THEN p ELSE IF p = 0 THEN n ELSE IF n < p THEN n ELSE p
        len == IF i = n THEN Len(TokName) ELSE Len(TokPostcode)
    IN  IF i = 0 THEN <<SubSeq(t, from, Len(t))>>
        ELSE <<SubSeq(t, from, i - 1)>> \o SegmentsFrom(t, i + len)

Segments(t) == SegmentsFrom(t, 1)

\* Every brace of the template belongs to one of its tokens.
BracesOnlyInTokens(t) ==
    \A k \in DOMAIN Segments(t) : ~HasChar(Segments(t)[k], {"{", "}"})

\* o consists of the segments, in order, with some text between each two
\* (and, when open, some text after the last).
RECURSIVE FitsFrom(_, _, _, _)
FitsFrom(o, segs, pos, open) ==
    IF segs = <<>> THEN open \/ pos = Len(o) + 1
    ELSE \E i \in pos..(Len(o) + 1 - Len(segs[1])) :
            /\ SubSeq(o, i, i + Len(segs[1]) - 1) = segs[1]
            /\ FitsFrom(o, Tail(segs), i + Len(segs[1]), open)

Fits(o, segs, open) ==
    /\ Len(segs[1]) <= Len(o)
    /\ SubSeq(o, 1, Len(segs[1])) = segs[1]
    /\ FitsFrom(o, Tail(segs), Len(segs[1]) + 1, open)

IsPrefix(p, s) == Len(p) <= Len(s) /\ SubSeq(s, 1, Len(p)) = p

\* The addresses separated by commas, built from the left.
RECURSIVE CommaList(_)
CommaList(es) ==
    IF es = <<>> THEN <<>>
    ELSE IF Len(es) = 1 THEN es[1]
    ELSE CommaList(SubSeq(es, 1, Len(es) - 1)) \o <<",">> \o es[Len(es)]

Emails(rs) == [i \in DOMAIN rs |-> rs[i].email]

\* The handler of the state has produced an email body.
Rendered ==
    \/ out.site = "generate-email" /\ out.status = "200"
    \/ out.site \in {"simple", "frontend", "legacy"} /\ out.status = "opened"
    \/ out.site = "check" /\ out.status = "checked"
    \/ out.site = "mailto" /\ out.status = "opened"
    \/ out.site = "clipboard" /\ out.status = "copied"
    \/ out.site = "letter" /\ out.status = "pdf"

\* The stored template is not empty and the sender has given a name.
FilledIn == cfg.body # <<>> /\ form.name # <<>>

\* The sender values carry no brace and no $ pattern.
PlainSender == ~HasChar(form.name \o form.postcode, {"{", "}", "$"})

(***************************************************************************)
(* C1 - Placeholder substitution is global at every call site that builds  *)
(* an email body: with a template whose braces all belong to tokens and    *)
(* plain sender values, no occurrence of {{name}} or {{postcode}} is left  *)
(* in the body, whichever of the aggregate builders produced it.           *)
(* Fails in the simple front end, whose String.replace takes a string      *)
(* pattern and replaces the first occurrence only.                         *)
(***************************************************************************)
C1_GlobalAtEverySite ==
    (/\ Rendered
     /\ out.site \in {"generate-email", "simple", "frontend"}
     /\ FilledIn
     /\ BracesOnlyInTokens(cfg.body)
     /\ PlainSender)
    => ~HasToken(out.body)

(***************************************************************************)
(* C2 - For every template and all sender values, values holding $& or     *)
(* other replacement patterns included, the rendered body holds no literal *)
(* {{name}} or {{postcode}} that came from a token of the template: when   *)
(* the braces of the template all belong to tokens and the sender values   *)
(* hold no brace, the body holds no token at all.                          *)
(* Fails for the name "$&", which String.replace expands to the matched    *)
(* token.                                                                  *)
(***************************************************************************)
C2_NoTokenSurvives ==
    (/\ Rendered
     /\ out.site \in {"generate-email", "check", "mailto", "clipboard"}
     /\ FilledIn
     /\ BracesOnlyInTokens(cfg.body)
     /\ ~HasChar(form.name \o form.postcode \o form.note, {"{", "}"}))
    => ~HasToken(out.body)

(***************************************************************************)
(* C3 - Rendering changes nothing but the {{name}} and {{postcode}}        *)
(* tokens: the text of the template between its tokens appears in the      *)
(* body unchanged and in order (the appended note may follow it), and a    *)
(* template without tokens is returned unchanged when there is no note.    *)
(* Fails because the second replace rescans the text the first has        *)
(* produced: "{{post{{name}}}}" with the name "code" loses "{{post" and    *)
(* "}}".                                                                   *)
(***************************************************************************)
C3_OnlyTokensChange ==
    (Rendered /\ out.site \in {"generate-email", "frontend"} /\ FilledIn)
    => Fits(out.body, Segments(cfg.body),
            IF out.site = "frontend" THEN Trim(form.note) # <<>> ELSE form.note # <<>>)

(***************************************************************************)
(* C4 - When the sender supplies no postcode, every {{postcode}} token is  *)
(* replaced by the empty string in every output that carries the body:    *)
(* no placeholder text stands in its place in the body, the mailto URL or  *)
(* the clipboard text.                                                     *)
(* Fails in generateEmailBody and generateLetterPDF, which put             *)
(* "[Your Postcode]" there.                                                *)
(***************************************************************************)
C4_EmptyPostcodeRemoved ==
    (Rendered /\ FilledIn /\ Trim(form.postcode) = <<>>)
    => /\ ~Contains(out.body, YourPostcode)
       /\ ~Contains(out.text, YourPostcode)
       /\ ~Contains(out.url, encodeURIComponent(YourPostcode))

(***************************************************************************)
(* C5 - Under the append-at-end policy a non-empty note makes the body the *)
(* rendered template, a blank line, the prefix of the call site and the    *)
(* note; with no note the body is exactly the rendered template.  The note *)
(* is the value the handler holds: the front ends trim it first.           *)
(***************************************************************************)
AppendedAtEnd(body, rendered, prefix, note) ==
    IF note # <<>>
    THEN body = rendered \o <<LF, LF>> \o prefix \o note
    ELSE body = rendered

C6_IdempotentForTokenFreeValues ==
    (FilledIn /\ ~HasToken(form.name) /\ ~HasToken(form.postcode))
    => /\ (out.site = "generate-email" /\ out.status = "200")
          => LET r == RouteRender(cfg.body, form.name, form.postcode)
             IN  RouteRender(r, form.name, form.postcode) = r
       /\ (out.site = "mailto" /\ out.status = "opened")
          => LET r == RecipientRender(cfg.body, form.name, form.postcode)
             IN  RecipientRender(r, form.name, form.postcode) = r

C6_IdempotentOnTokenFreeOutput ==
    /\ (out.site = "generate-email" /\ out.status = "200")
       => LET r == RouteRender(cfg.body, form.name, form.postcode)
          IN  ~HasToken(r) => RouteRender(r, form.name, form.postcode) = r
    /\ (out.site = "mailto" /\ out.status = "opened")
       => LET r == RecipientRender(cfg.body, form.name, form.postcode)
          IN  ~HasToken(r) => RecipientRender(r, form.name, form.postcode) = r

C6_Witness ==
    /\ out.site = "generate-email" /\ out.status = "200"
    /\ Contains(cfg.body, TokName) /\ Contains(cfg.body, TokPostcode)
    /\ form.note = <<>>
    /\ ~HasToken(out.body)
    /\ out.body # cfg.body

(***************************************************************************)
(* C7 - checkEmailLength(subject, body).totalLength is the character count *)
(* of the mailto URL the link builder opens for the same subject and body. *)
(* Fails: the checker measures "mailto:?subject=...&body=..." without the  *)
(* recipient's address, so the opened URL is longer by the address.        *)
(***************************************************************************)
C7_LengthIsThatOfTheLink ==
    (out.site = "mailto" /\ out.status = "opened" /\ FilledIn)
    => out.check.totalLength = Len(out.url)

(***************************************************************************)
(* C8 - checkEmailLength classifies by fixed thresholds with strict        *)
(* comparison: up to 1800 neither warning nor critical, 1801 to 2000       *)
(* warning and not critical, 2001 and more critical.                       *)
(***************************************************************************)
C8_Thresholds ==
    (out.site \in {"check", "mailto"})
    => LET t == out.check.totalLength
       IN  /\ t <= 1800 => ~out.check.isWarning /\ ~out.check.isCritical
           /\ (1801 <= t /\ t <= 2000) => out.check.isWarning /\ ~out.check.isCritical
           /\ t >= 2001 => out.check.isCritical

C8_Witness ==
    /\ out.site = "check"
    /\ out.check.totalLength = 2000
    /\ out.check.isWarning /\ ~out.check.isCritical

(***************************************************************************)
(* C9 - The target of the aggregate mailto URL is the stored recipients'   *)
(* addresses joined by "," in stored order.  As claimed (one entry per     *)
(* stored recipient, none dropped) it fails in the legacy submit handler,  *)
(* whose filter(Boolean) leaves out a recipient stored without an address. *)
(* What holds: no builder sorts or deduplicates; the route and the two     *)
(* front ends keep one entry per stored recipient, and the legacy handler  *)
(* keeps one entry per stored recipient that has an address.               *)
(***************************************************************************)
TargetIs(url, es) == IsPrefix(MailtoScheme \o CommaList(es) \o SubjectParam, url)

C9_OneEntryPerRecipient ==
    (\/ out.site = "generate-email" /\ out.status = "200"
     \/ out.site \in {"simple", "frontend", "legacy"} /\ out.status = "opened")
    => TargetIs(out.url, Emails(recipients))

C9_StoredOrderKept ==
    /\ ((out.site = "generate-email" /\ out.status = "200")
        \/ (out.site \in {"simple", "frontend"} /\ out.status = "opened"))
       => TargetIs(out.url, Emails(recipients))
    /\ (out.site = "legacy" /\ out.status = "opened")
       => TargetIs(out.url, SelectSeq(Emails(recipients), LAMBDA e : e # <<>>))

C9_Witness ==
    /\ out.site = "legacy" /\ out.status = "opened"
    /\ Len(recipients) = 3
    /\ recipients[1] = recipients[3]
    /\ recipients[2].email = <<>>

(***************************************************************************)
(* C10 - Every link builder turns each newline of the final body into      *)
(* \r\n before percent-encoding it: no %0A of a mailto URL stands without  *)
(* a %0D before it.                                                        *)
(* Fails in POST /api/generate-email, generateMailtoLink and the legacy    *)
(* submit handler, which encode the body as it is.                         *)
(***************************************************************************)
C10_NoBareLineFeed ==
    (out.url # <<>> /\ FilledIn)
    => \A i \in Matches(out.url, <<"%", "0", "A">>) :
          i > 3 /\ SubSeq(out.url, i - 3, i - 1) = <<"%", "0", "D">>

(***************************************************************************)
(* Vocabulary of the campaign page                                         *)
(***************************************************************************)
\* The links send s has opened, in the order it opened them.
LinksOf(s) == SelectSeq(page.opened, LAMBDA l : l.send = s)

\* Every timer of send s has run.
SendDone(s) == \A t \in page.timers : t[1] # s

(***************************************************************************)
(* C11 - A per-recipient send opens exactly one mailto URL per recipient,  *)
(* in recipient-list order; the URL for recipient r is addressed to        *)
(* r.email only, and all URLs of one send carry the same subject and the   *)
(* same body.                                                              *)
(* Fails: generateEmailBody reads form.getValues() when the timer runs,    *)
(* and onSuccess of the submission request resets the form between two     *)
(* timers, so the later links carry the body of the form's default values. *)
(***************************************************************************)
C11_OneLinkPerRecipient ==
    \A s \in DOMAIN page.sent :
       LET links == LinksOf(s)
           rs == page.sent[s].recipients
       IN  /\ \A k \in DOMAIN links :
                /\ links[k].to = k
                /\ IsPrefix(MailtoScheme \o rs[k].email \o SubjectParam
                            \o encodeURIComponent(cfg.subject) \o BodyParam, links[k].url)
                /\ links[k].body = links[1].body
           /\ SendDone(s) => Len(links) = Len(rs)

(***************************************************************************)
(* C12 - In per-recipient mode the caller reports which recipients are in  *)
(* the critical bucket: when handleSendEmails refuses a send because of    *)
(* the length check, the outcome it shows names each critical recipient    *)
(* by its address.                                                         *)
(* Fails: the only outcome is the toast "Email Too Long", whose text is    *)
(* the same for every send and names no recipient.                         *)
(***************************************************************************)
C12_CriticalRecipientsNamed ==
    (page.toast.title = "Email Too Long")
    => \A k \in DOMAIN page.recipients :
          Contains(page.toast.description, page.recipients[k].email)

\* s ends with the sequence e.
IsSuffix(e, s) == Len(e) <= Len(s) /\ SubSeq(s, Len(s) - Len(e) + 1, Len(s)) = e

(***************************************************************************)
(* C13 - A body whose mailto URL is classified critical is never opened    *)
(* as a mailto link and is never shortened: no opened link carries a body  *)
(* that checkEmailLength classifies critical, every send that went ahead   *)
(* passed the check for the sender input it was called with, and the       *)
(* clipboard text of each recipient ends with the complete body the        *)
(* mailto link carries.                                                    *)
(* Fails: the check runs when handleSendEmails is called, the body of a    *)
(* link is rendered when its timer runs; after onSuccess has reset the     *)
(* form, "[Your Name]" stands for the name and the link that is opened     *)
(* carries a body that is classified critical.                             *)
(***************************************************************************)
C13_CriticalNeverOpened ==
    /\ \A k \in DOMAIN page.opened :
          ~checkEmailLength(cfg.subject, page.opened[k].body).isCritical
    /\ \A s \in DOMAIN page.sent :
          page.sent[s].recipients # <<>>
          => ~checkRecipientEmailLength(cfg, page.sent[s].data).isCritical
    /\ \A k \in DOMAIN page.recipients :
          IsSuffix(generateEmailBody(cfg.body, form),
                   ClipboardText(cfg, page.recipients[k], form))

(***************************************************************************)
(* C14 - With an empty recipient list every builder refuses and emits      *)
(* nothing: the aggregate route gives no success response, the letter      *)
(* generator produces no document, and a per-recipient send opens no link  *)
(* and issues no submission request.                                       *)
(* Fails in handleSendEmails, which has no check of the list: with         *)
(* recipients = [] (the query's default while it loads or after an error)  *)
(* the filter finds no critical recipient and the submission is recorded.  *)
(***************************************************************************)
C14_NoRecipientsRefused ==
    /\ (out.site = "generate-email" /\ out.status = "200") => recipients # <<>>
    /\ (out.site = "letter" /\ out.status = "pdf") => recipients # <<>>
    /\ \A s \in DOMAIN page.sent : page.sent[s].recipients # <<>>
    /\ \A i \in DOMAIN reqs :
          reqs[i].origin = "page" => page.sent[reqs[i].send].recipients # <<>>

(***************************************************************************)
(* C15 - For a campaign whose isActive flag is false the public flow       *)
(* refuses to build: a run of handleSendEmails whose campaign is inactive  *)
(* opens no link and issues no submission request, and a request for       *)
(* which the submit endpoint reads an inactive campaign is answered 403    *)
(* and creates no row.                                                     *)
(***************************************************************************)
C15_InactiveRefused ==
    /\ \A s \in DOMAIN page.sent : page.sent[s].isActive
    /\ \A k \in DOMAIN page.opened : page.opened[k].send \in DOMAIN page.sent
    /\ \A i \in DOMAIN reqs :
          /\ reqs[i].origin = "page" => reqs[i].send \in DOMAIN page.sent
          /\ (reqs[i].seen.exists /\ ~reqs[i].seen.isActive)
             => /\ reqs[i].stage \in {"responded", "settled"}
                /\ reqs[i].code = 403
                /\ reqs[i].rows = 0
                /\ \A row \in srv.submissions : row.req # i

C15_Witness ==
    /\ page.toast.title = "Campaign Inactive"
    /\ ~page.campaign.isActive
    /\ \E i \in DOMAIN reqs :
          reqs[i].seen.exists /\ reqs[i].seen.isPublic /\ ~reqs[i].seen.isActive

(***************************************************************************)
(* C16 - Every submission row references a campaign that exists, is public *)
(* and is active at the moment the row is created, for every interleaving  *)
(* of the submit endpoint with updateCampaign and deleteCampaign; a        *)
(* request for a missing, private or inactive campaign is rejected and     *)
(* creates no row.                                                         *)
(* Fails: the handler reads the campaign and inserts the row in two        *)
(* separate statements, and an updateCampaign that lands between them      *)
(* leaves a row created for a campaign that is private or inactive.        *)
(***************************************************************************)
C16_RowsForEligibleCampaigns ==
    /\ \A row \in srv.submissions :
          /\ srv.campaigns[row.campaignId].exists
          /\ row.isPublic
          /\ row.isActive
    /\ \A i \in DOMAIN reqs :
          (reqs[i].stage = "responded"
           /\ ~(reqs[i].seen.exists /\ reqs[i].seen.isPublic /\ reqs[i].seen.isActive))
          => reqs[i].code \in {403, 404} /\ reqs[i].rows = 0

\* The sender input has an empty name or an email that is not an address.
InvalidInput(d) == Len(d.name) = 0 \/ ~zodEmail(d.email)

\* The campaign the endpoint read for the request was eligible.
SawEligible(r) == r.seen.exists /\ r.seen.isPublic /\ r.seen.isActive

(***************************************************************************)
(* C17 - A submission request whose sender input fails validation creates  *)
(* no row.  As claimed (it always fails with HTTP 400) it does not hold:   *)
(* the endpoint looks the campaign up first, and answers 404 for a missing *)
(* and 403 for a private or inactive campaign before it validates.  What   *)
(* holds: the request never creates a row; it is answered 400 when the     *)
(* campaign it names exists, is public and is active, and 404 or 403       *)
(* otherwise.                                                              *)
(***************************************************************************)
C17_InvalidInputIs400 ==
    \A i \in DOMAIN reqs :
       (reqs[i].stage = "responded" /\ InvalidInput(reqs[i].data))
       => reqs[i].code = 400 /\ reqs[i].rows = 0

C17_InvalidInputCreatesNoRow ==
    \A i \in DOMAIN reqs :
       InvalidInput(reqs[i].data)
       => /\ reqs[i].rows = 0
          /\ \A row \in srv.submissions : row.req # i
          /\ reqs[i].stage # "eligible"
          /\ reqs[i].stage = "responded"
             => /\ SawEligible(reqs[i]) => reqs[i].code = 400
                /\ ~reqs[i].seen.exists => reqs[i].code = 404
                /\ (reqs[i].seen.exists /\ ~SawEligible(reqs[i])) => reqs[i].code = 403

C17_Witness ==
    \E i, j \in DOMAIN reqs :
       /\ InvalidInput(reqs[i].data) /\ reqs[i].code = 400 /\ SawEligible(reqs[i])
       /\ reqs[j].code = 201 /\ reqs[j].campaignId = reqs[i].campaignId
       /\ Cardinality(srv.submissions) = 1

(***************************************************************************)
(* C18 - A failure of the submission write never prevents or delays the    *)
(* links, and the content of a link does not depend on the outcome of the  *)
(* request: every link a send opens is the link generateMailtoLink builds  *)
(* for its recipient from the sender input the send was called with, and   *)
(* a send whose timers have all run has opened a link for each recipient,  *)
(* whatever has become of its request.                                     *)
(* Fails: when the request succeeds, onSuccess resets the form, and the    *)
(* links opened afterwards are built from the form's default values; when  *)
(* it fails or never returns they are built from the sender's input.       *)
(***************************************************************************)
C18_LinksIndependentOfRequest ==
    \A s \in DOMAIN page.sent :
       LET links == LinksOf(s)
       IN  /\ \A k \in DOMAIN links :
                links[k].url = generateMailtoLink(cfg, page.sent[s].recipients[links[k].to],
                                                  page.sent[s].data)
           /\ SendDone(s) => Len(links) = Len(page.sent[s].recipients)

(***************************************************************************)
(* C19 - Exactly one submission is recorded per successful form            *)
(* submission: each run of handleSendEmails that passes its checks has     *)
(* issued exactly one submission request, each accepted request has        *)
(* inserted exactly one row and no other request any, and a Submit that    *)
(* only opens the share dialog issues no request and inserts no row.       *)
(***************************************************************************)
RequestsOf(s) == SelectSeq(reqs, LAMBDA r : r.origin = "page" /\ r.send = s)

OneRequestPerSend ==
    /\ Len(PageReqs) = Len(page.sent)
    /\ \A s \in DOMAIN page.sent :
          /\ Len(RequestsOf(s)) = 1
          /\ RequestsOf(s)[1].data = page.sent[s].data
    /\ \A i \in DOMAIN reqs :
          /\ Cardinality({row \in srv.submissions : row.req = i}) = reqs[i].rows
          /\ reqs[i].rows = IF reqs[i].code = 201 THEN 1 ELSE 0

DialogOpens == ~page.showShareDialog /\ page'.showShareDialog

C19_OneSubmissionPerSend ==
    /\ []OneRequestPerSend
    /\ [][DialogOpens => (reqs' = reqs /\ srv' = srv /\ page'.sent = page.sent)]_vars

C19_Witness ==
    /\ Len(page.sent) = 2
    /\ page.hasShared
    /\ Cardinality(srv.submissions) = 2
    /\ \A i \in DOMAIN reqs : reqs[i].code = 201

(***************************************************************************)
(* C20 - After any sequence of campaign creations, updates and deletions,  *)
(* every stored campaign has at least one recipient, and every recorded    *)
(* public submission belongs to a stored campaign with at least one        *)
(* recipient.                                                              *)
(***************************************************************************)
C20_StoredCampaignsHaveRecipients ==
    /\ \A id \in 1..MaxCampaigns :
          srv.campaigns[id].exists => Len(srv.campaigns[id].recipients) >= 1
    /\ \A row \in srv.submissions :
          /\ srv.campaigns[row.campaignId].exists
          /\ Len(srv.campaigns[row.campaignId].recipients) >= 1

C20_Witness ==
    /\ srv.nextId = MaxCampaigns + 1
    /\ ~srv.campaigns[1].exists
    /\ srv.campaigns[MaxCampaigns].exists
    /\ ~srv.campaigns[MaxCampaigns].isActive
    /\ \E row \in srv.submissions : row.campaignId = MaxCampaigns

(***************************************************************************)
(* Vocabulary of the printable documents                                   *)
(***************************************************************************)
\* The pages a letter starts on: only the title is drawn in 16 pt.
LetterStarts(pdf) == {p \in DOMAIN pdf : pdf[p] # <<>> /\ pdf[p][1].size = 16}

BlockStart(pdf, i) ==
    CHOOSE p \in LetterStarts(pdf) : Cardinality({q \in LetterStarts(pdf) : q < p}) = i - 1

BlockEnd(pdf, i) ==
    IF i = Cardinality(LetterStarts(pdf)) THEN Len(pdf) ELSE BlockStart(pdf, i + 1) - 1

\* The texts of pages from..to, in drawing order
RECURSIVE PageTexts(_, _, _)
PageTexts(pdf, from, to) ==
    IF from > to THEN <<>>
    ELSE [k \in DOMAIN pdf[from] |-> pdf[from][k].text] \o PageTexts(pdf, from + 1, to)

LetterPdf == out.site = "letter" /\ out.status = "pdf"

(***************************************************************************)
(* C21 - generateLetterPDF produces exactly one letter per recipient, in   *)
(* the order of the recipient list, each starting at the top of a page of  *)
(* its own; every letter consists of the title and date, the sender's      *)
(* name, email and (when given) postcode, the recipient's name and email,  *)
(* the subject, the lines of the rendered body with the note appended      *)
(* after a blank line when there is one, and "Sincerely," followed by the  *)
(* sender's name.                                                          *)
(***************************************************************************)
C21_OneLetterPerRecipient ==
    LetterPdf =>
        /\ Cardinality(LetterStarts(out.pdf)) = Len(recipients)
        /\ 1 \in LetterStarts(out.pdf)
        /\ \A p \in DOMAIN out.pdf : \A k \in DOMAIN out.pdf[p] :
              /\ out.pdf[p][k].size = 16 => k = 1
              /\ k = 1 => out.pdf[p][k].y = margin
        /\ \A i \in DOMAIN recipients :
              PageTexts(out.pdf, BlockStart(out.pdf, i), BlockEnd(out.pdf, i))
                = <<CampaignTitle, Today, <<"F", "r", "o", "m", ":">>, form.name, form.email>>
                  \o (IF form.postcode # <<>> THEN <<form.postcode>> ELSE <<>>)
                  \o <<<<"T", "o", ":">>, recipients[i].name, recipients[i].email,
                       SubjectHeader \o cfg.subject>>
                  \o Split(LetterRender(cfg.body, form.name, form.postcode)
                             \o (IF form.note # <<>> THEN BlankLine \o form.note ELSE <<>>),
                           <<LF>>)
                  \o <<<<"S", "i", "n", "c", "e", "r", "e", "l", "y", ",">>, form.name>>

C21_Witness ==
    /\ LetterPdf
    /\ Len(recipients) >= 2
    /\ form.note # <<>>
    /\ Len(out.pdf) = 2 * Len(recipients)

\* The labels of a sheet: every label starts with its prefix, the only text
\* drawn in bold, followed by the name and the first line of the address.
\* The cell of a label is read off the position of its prefix.
LabelAt(pdf, p, k) ==
    LET col == (pdf[p][k].x - 50 - leftMargin) \div (labelWidth + horizontalGap)
        row == (pdf[p][k].y - 100 - topMargin) \div (labelHeight + verticalGap)
    IN  [page |-> p, prefix |-> pdf[p][k].text, name |-> pdf[p][k + 1].text,
         address |-> pdf[p][k + 2].text, row |-> row, col |-> col,
         position |-> row * labelsPerRow + col,
         onGrid |-> /\ pdf[p][k].x = leftMargin + col * (labelWidth + horizontalGap) + 50
                    /\ pdf[p][k].y = topMargin + row * (labelHeight + verticalGap) + 100]

RECURSIVE LabelsFrom(_, _)
LabelsFrom(pdf, p) ==
    IF p > Len(pdf) THEN <<>>
    ELSE LET idx == SelectSeq([k \in DOMAIN pdf[p] |-> k],
                              LAMBDA k : pdf[p][k].style = "bold")
         IN  [j \in DOMAIN idx |-> LabelAt(pdf, p, idx[j])] \o LabelsFrom(pdf, p + 1)

Labels(pdf) == LabelsFrom(pdf, 1)

LabelsPdf == out.site = "labels" /\ out.status = "pdf"

(***************************************************************************)
(* C22 - generateAddressLabelsPDF draws exactly 1 + N labels for N         *)
(* recipients: the first is the sender's "From:" label at position 0 of    *)
(* page 1, then one "To:" label per recipient in list order; every label   *)
(* lies on the grid of 3 columns by 7 rows at a position in 0..20, no two  *)
(* labels of a page share a position, each label takes the position after  *)
(* the one before it, and the label after position 20 is at position 0 of  *)
(* a new page.                                                             *)
(***************************************************************************)
C22_LabelGrid ==
    LabelsPdf =>
        LET L == Labels(out.pdf)
        IN  /\ Len(L) = 1 + Len(recipients)
            /\ L[1].page = 1 /\ L[1].position = 0
            /\ L[1].prefix = <<"F", "r", "o", "m", ":">>
            /\ L[1].name = form.name /\ L[1].address = form.email
            /\ \A i \in DOMAIN recipients :
                  /\ L[i + 1].prefix = <<"T", "o", ":">>
                  /\ L[i + 1].name = recipients[i].name
                  /\ L[i + 1].address = recipients[i].email
            /\ \A j \in DOMAIN L :
                  /\ L[j].onGrid
                  /\ L[j].col \in 0..(labelsPerRow - 1)
                  /\ L[j].row \in 0..(labelsPerColumn - 1)
                  /\ L[j].position \in 0..20
            /\ \A j, k \in DOMAIN L :
                  (j # k /\ L[j].page = L[k].page) => L[j].position # L[k].position
            /\ \A j \in 1..(Len(L) - 1) :
                  IF L[j].position = 20
                  THEN L[j + 1].page = L[j].page + 1 /\ L[j + 1].position = 0
                  ELSE L[j + 1].page = L[j].page /\ L[j + 1].position = L[j].position + 1
            /\ Len(out.pdf) = L[Len(L)].page

C22_Witness ==
    /\ LabelsPdf
    /\ Len(out.pdf) = 3
    /\ Len(Labels(out.pdf)[2 * 21 + 1].name) > 0
    /\ Labels(out.pdf)[2 * 21 + 1].position = 0

(***************************************************************************)
(* C23 - No email body, mailto URL, clipboard text or printable document   *)
(* is produced from a sender input whose name or email is empty: whichever *)
(* entry point has run on such an input, it has rendered nothing.          *)
(* Fails for the copy button of the campaign page, which is enabled        *)
(* whatever the form holds: generateEmailBody renders "[Your Name]".       *)
(***************************************************************************)
C23_EmptySenderRejected ==
    (form.name = <<>> \/ form.email = <<>>)
    => /\ out.body = <<>>
       /\ out.url = <<>>
       /\ out.text = <<>>
       /\ out.pdf = <<>>

(***************************************************************************)
(* C24 - All mailto links opened by one send are built from the sender     *)
(* values that were submitted: whatever the order of the timers and the    *)
(* success callback of the submission request, the body of every link a    *)
(* send has opened is the body of its first link, which is the campaign    *)
(* body rendered with the submitted name, postcode and note.               *)
(* Fails: the timer callback renders from form.getValues(), and onSuccess  *)
(* has reset the form when the callback of a later recipient runs.         *)
(***************************************************************************)
C24_LinksCarrySubmittedValues ==
    \A l \in DOMAIN page.opened :
       LET first == LinksOf(page.opened[l].send)[1]
       IN  /\ page.opened[l].body = first.body
           /\ first.body = generateEmailBody(cfg.body, page.sent[page.opened[l].send].data)

\* The handler of the state has rendered the body of one recipient's email.
PerRecipientBody ==
    \/ out.site = "check" /\ out.status = "checked"
    \/ out.site = "mailto" /\ out.status = "opened"
    \/ out.site = "clipboard" /\ out.status = "copied"

\* seq without its k-th element
Without(seq, k) == SubSeq(seq, 1, k - 1) \o SubSeq(seq, k + 1, Len(seq))

(***************************************************************************)
(* C25 - In the per-recipient flow a non-blank note, trimmed, becomes the  *)
(* second paragraph when the rendered body has a blank line: it stands     *)
(* between the text before the first blank line and the rest, with a blank *)
(* line on either side; when the rendered body has no blank line the note  *)
(* is appended after a blank line.  The paragraphs of the rendered body    *)
(* are all kept, in order, and a blank or absent note leaves the rendered  *)
(* body unchanged.                                                         *)
(***************************************************************************)
C25_NoteIsSecondParagraph ==
    PerRecipientBody =>
        LET rendered == RecipientRender(cfg.body, form.name, form.postcode)
            note == Trim(form.note)
            i == NextMatch(rendered, BlankLine, 1)
        IN  IF note = <<>> THEN out.body = rendered
            ELSE /\ i # 0 => out.body = SubSeq(rendered, 1, i - 1) \o BlankLine \o note
                                          \o SubSeq(rendered, i, Len(rendered))
                 /\ i = 0 => out.body = rendered \o BlankLine \o note
                 /\ \E k \in {2, Len(Split(out.body, BlankLine))} :
                       /\ Split(out.body, BlankLine)[k] = note
                       /\ Without(Split(out.body, BlankLine), k) = Split(rendered, BlankLine)

C25_Witness ==
    /\ out.site = "mailto" /\ out.status = "opened"
    /\ Trim(form.note) # <<>>
    /\ Len(Split(RecipientRender(cfg.body, form.name, form.postcode), BlankLine)) = 3
    /\ Split(out.body, BlankLine)[2] = Trim(form.note)
    /\ Len(Split(out.body, BlankLine)) = 4

\* The requester of r is neither an admin nor the owner of the campaign.
Outsider(requester, userId) ==
    requester = Anonymous \/ (~checkUserIsAdmin(requester) /\ requester # userId)

(***************************************************************************)
(* C26 - A campaign that is not public is not disclosed to a requester who *)
(* is neither its owner nor an admin: a request by slug or for the         *)
(* recipients that finds the campaign private is answered 404 with no      *)
(* campaign and no recipients, whether the requester is signed in or not,  *)
(* and the list answered to a requester who is not an admin holds public   *)
(* campaigns only.                                                         *)
(***************************************************************************)
C26_PrivateCampaignsHidden ==
    \A i \in DOMAIN reqs :
       LET r == reqs[i]
       IN  /\ (r.route \in {"slug", "recipients"} /\ r.stage # "sent"
               /\ r.seen.exists /\ ~r.seen.isPublic /\ Outsider(r.requester, r.seen.userId))
              => /\ r.stage = "responded" /\ r.code = 404
                 /\ r.campaigns = {} /\ r.recipients = <<>>
           /\ (r.route = "list" /\ r.stage = "responded" /\ ~checkUserIsAdmin(r.requester))
              => \A c \in r.campaigns : c.isPublic
           /\ \A c \in r.campaigns :
                 ~c.isPublic => ~Outsider(r.requester, c.userId)

C26_Witness ==
    /\ Len(reqs) = 2
    /\ reqs[1].route = "recipients" /\ reqs[1].requester = "bob"
    /\ reqs[1].seen.exists /\ ~reqs[1].seen.isPublic /\ reqs[1].seen.userId = "ann"
    /\ reqs[1].code = 404
    /\ reqs[2].route = "recipients" /\ reqs[2].requester = "ann"
    /\ reqs[2].campaignId = reqs[1].campaignId
    /\ reqs[2].code = 200 /\ reqs[2].recipients # <<>>
    /\ ~srv.campaigns[reqs[1].campaignId].isPublic

(***************************************************************************)
(* C27 - For every subject and body checkEmailLength never returns         *)
(* isWarning and isCritical both true, and its message is non-empty        *)
(* exactly when one of the two flags is true.                              *)
(***************************************************************************)
C27_FlagsExclusive ==
    (out.site \in {"check", "mailto"})
    => /\ ~(out.check.isWarning /\ out.check.isCritical)
       /\ (out.check.message # <<>>) <=> (out.check.isWarning \/ out.check.isCritical)

C27_Witness ==
    /\ out.site = "check"
    /\ out.check.isCritical /\ ~out.check.isWarning
    /\ out.check.totalLength > MAILTO_LENGTH_CRITICAL
    /\ out.check.message # <<>>

\* The request that has inserted campaign id
CreatorOf(id) == CHOOSE i \in DOMAIN reqs : reqs[i].origin = "create" /\ reqs[i].id = id

Created(id) == \E i \in DOMAIN reqs : reqs[i].origin = "create" /\ reqs[i].id = id

\* Campaign id is stored with all the recipients of the request that made it.
StoredWhole(id) ==
    /\ srv.campaigns[id].exists
    /\ Created(id)
    /\ srv.campaigns[id].recipients = reqs[CreatorOf(id)].data.recipients
    /\ srv.campaigns[id].recipients # <<>>

(***************************************************************************)
(* C28 - createCampaign is atomic: when the insert of the recipients fails *)
(* (two recipients with the same email) no campaign row is left; when the  *)
(* call succeeds the campaign is stored with all of its recipients; and at *)
(* no moment does the store hold, or a reader get, a campaign of the call  *)
(* without its recipients.                                                 *)
(***************************************************************************)
C28_CreateCampaignAtomic ==
    /\ \A id \in 1..MaxCampaigns : srv.campaigns[id].exists => StoredWhole(id)
    /\ \A i \in DOMAIN reqs :
          LET r == reqs[i]
          IN  /\ (r.origin = "create" /\ r.stage = "responded" /\ r.code # 201)
                 => (r.id = 0 \/ ~srv.campaigns[r.id].exists)
              /\ (r.origin = "create" /\ r.stage = "responded" /\ r.code = 201)
                 => StoredWhole(r.id)
              /\ (r.origin = "create" /\ r.stage \in {"inserted", "filled"})
                 => ~srv.campaigns[r.id].exists
              /\ r.origin = "read"
                 => /\ \A c \in r.campaigns : StoredWhole(c.id)
                    /\ r.stage = "allowed" => StoredWhole(r.campaignId)
                    /\ (r.route = "recipients" /\ r.code = 200)
                       => /\ StoredWhole(r.campaignId)
                          /\ r.recipients = srv.campaigns[r.campaignId].recipients

C28_Witness ==
    /\ \E i \in DOMAIN reqs :
          /\ reqs[i].origin = "create" /\ reqs[i].code = 409
          /\ reqs[i].id # 0 /\ ~srv.campaigns[reqs[i].id].exists
    /\ \E i \in DOMAIN reqs :
          /\ reqs[i].origin = "create" /\ reqs[i].code = 201
          /\ Len(srv.campaigns[reqs[i].id].recipients) = 2
          /\ \E j \in DOMAIN reqs :
                /\ reqs[j].origin = "read" /\ reqs[j].route = "recipients"
                /\ reqs[j].campaignId = reqs[i].id
                /\ reqs[j].code = 200
          /\ \E j \in DOMAIN reqs :
                /\ reqs[j].origin = "read" /\ reqs[j].route = "recipients"
                /\ reqs[j].campaignId = reqs[i].id
                /\ reqs[j].code = 404

\* The records request i has left in the database and in the file
SendsInDb(i) == Cardinality({row \in srv.emailSends : row.req = i})
SendsInFile(i) ==
    Cardinality({k \in DOMAIN srv.analyticsFile : srv.analyticsFile[k].req = i})

(***************************************************************************)
(* C29 - Each POST /track request of the legacy server records the send    *)
(* exactly once: when the request has been answered, the send is either in *)
(* the database or in the file, not in both and not in neither, also when  *)
(* one of the two database writes has failed after the other succeeded.    *)
(* Fails: when the insert into emailSends succeeds and the upsert of        *)
(* campaignStats throws, the catch falls through to the file, and the send *)
(* is in both.                                                             *)
(***************************************************************************)
C29_TrackedExactlyOnce ==
    \A i \in DOMAIN reqs :
       (reqs[i].origin = "track" /\ reqs[i].stage = "responded")
       => SendsInDb(i) + SendsInFile(i) = 1

(***************************************************************************)
(* C30: the admin recipient-list parsers                                   *)
(***************************************************************************)
OnlyValid(rs) == \A i \in DOMAIN rs : validateEmail(rs[i].email)

\* The non-blank lines of a textarea value, trimmed, in line order
EntryLines(value) ==
    LET lines == SelectSeq(SplitLines(value), LAMBDA line : Trim(line) # <<>>)
    IN  [i \in DOMAIN lines |-> Trim(lines[i])]

\* The grammar: a line that ends with ">" and whose first "<" is followed by
\* an address with an "@" inside reads as Name <email>; any other line reads
\* as a bare email.
GrammarReading(line) ==
    LET A == {k \in DOMAIN line : line[k] = "<"}
        k == SetMin(A)
        n == Len(line)
    IN  IF A # {} /\ k < n /\ line[n] = ">" /\ AddrShape(SubSeq(line, k + 1, n - 1))
        THEN [name |-> Trim(SubSeq(line, 1, k - 1)),
              email |-> Trim(SubSeq(line, k + 1, n - 1))]
        ELSE [name |-> <<>>, email |-> line]

GrammarReadings(value) ==
    LET lines == EntryLines(value)
    IN  [i \in DOMAIN lines |-> GrammarReading(lines[i])]

SingleLines(value) ==
    \A i \in DOMAIN EntryLines(value) : ~HasChar(EntryLines(value)[i], LineTerminators)

\* The lists the claim says survive formatting and parsing
StatedDomain(rs) ==
    \A i \in DOMAIN rs : ~HasChar(rs[i].name, {"<"}) /\ validateEmail(rs[i].email)

\* The lists that do: names as the parser returns them, and no bare email
\* that the legacy page would read as Name <email>
RoundTripDomain(rs, legacy) ==
    \A i \in DOMAIN rs :
        /\ Trim(rs[i].name) = rs[i].name
        /\ ~HasChar(rs[i].name, {"<"} \cup LineTerminators)
        /\ validateEmail(rs[i].email)
        /\ (legacy /\ rs[i].name = <<>>) => ~HasChar(rs[i].email, {"<"})

Refusals == {"required", "norecipient", "400"}

\* C30 as stated: either admin parser keeps only entries whose email is
\* valid, a list with names without "<" and valid emails survives formatting
\* and parsing, and a text with no valid entry is never saved.
C30_ParserAsStated ==
    IsAdminForm(form) =>
        /\ OnlyValid(parseRecipients(form.recipients))
        /\ OnlyValid(AdminFormParse(form.recipients))
        /\ (out = AdminOut("legacy", "loaded") /\ StatedDomain(recipients))
              => parseRecipients(form.recipients) = recipients
        /\ (out = AdminOut("react", "loaded") /\ StatedDomain(recipients))
              => AdminFormParse(form.recipients) = recipients
        /\ out.status = "saved" => parseRecipients(form.recipients) # <<>>

C30_StateOfAdminPages ==
    IsAdminForm(form) =>
        /\ OnlyValid(parseRecipients(form.recipients))
        /\ SingleLines(form.recipients) =>
              /\ parseRecipients(form.recipients)
                    = SelectSeq(GrammarReadings(form.recipients),
                                LAMBDA e : validateEmail(e.email))
              /\ AdminFormParse(form.recipients) = GrammarReadings(form.recipients)
        /\ (out = AdminOut("legacy", "loaded") /\ RoundTripDomain(recipients, TRUE))
              => parseRecipients(form.recipients) = recipients
        /\ (out = AdminOut("react", "loaded") /\ RoundTripDomain(recipients, FALSE))
              => AdminFormParse(form.recipients) = recipients
        /\ out = AdminOut("legacy", "saved")
              => recipients = parseRecipients(form.recipients) /\ recipients # <<>>
        /\ out = AdminOut("react", "saved")
              => /\ recipients = AdminFormParse(form.recipients)
                 /\ recipients # <<>>
                 /\ OnlyValid(recipients)

C30_RefusalSavesNothing ==
    /\ out'.status \in Refusals => UNCHANGED <<cfg, recipients>>
    /\ (IsAdminForm(form) /\ out'.status = "saved")
          => parseRecipients(form.recipients) # <<>>

\* C30 (amended): the legacy parser reads the non-blank lines in order by the
\* grammar Name <email> | email and keeps the entries whose email is valid;
\* the React parser reads the same grammar and keeps every entry, and the
\* server saves its list only when every email is valid; a list of trimmed
\* single-line names without "<" and valid emails survives formatting and
\* parsing; a refused submission changes nothing of the stored configuration
\* and a text with no valid entry is refused.
C30_AdminRecipientParser ==
    /\ []C30_StateOfAdminPages
    /\ [][C30_RefusalSavesNothing]_vars

\* The legacy page has saved a text of two non-blank lines of which one was
\* kept, with the name trimmed out of its padded line.
C30_Witness ==
    /\ out = AdminOut("legacy", "saved")
    /\ Len(EntryLines(form.recipients)) = 2
    /\ Len(recipients) = 1
    /\ recipients[1].name = <<"B">>

====
